---------------------------- MODULE Spec2Model ----------------------------
(***************************************************************************)
(* Sonic State: the analysis pipeline (feature extraction, scoring,        *)
(* insight rules) and the screen plumbing that drives it.                  *)
(*                                                                         *)
(* JavaScript numbers are modelled as exact fractions n/d in lowest terms  *)
(* with d > 0, extended with the IEEE special values the code can          *)
(* produce: NaN is 0/0, +Infinity is 1/0 and -Infinity is -1/0.  Rounding  *)
(* error of doubles (about 1e-16) is not modelled; Math.sqrt is computed   *)
(* to a fixed precision.                                                   *)
(***************************************************************************)
EXTENDS Integers, Sequences, FiniteSets, TLC

VARIABLES
    INSIGHT_RULES,        \* InsightEngine.ts: the module-level rule table
    calls,                \* log of the calls made to the exported pure functions
    pendingAudioBuffer,   \* AudioUtils.ts: the module-level hand-off slot
    route,                \* AppNavigator: the screen on top of the stack
    routeParams,          \* the params the current route was opened with
    processingRef,        \* ProcessingScreen: processingRef.current
    timeoutId,            \* ProcessingScreen: the pending 500 ms timer, or null
    effectMounted,        \* ProcessingScreen: its effect has run and is not cleaned up
    isRecording,          \* RecordingScreen: useState(false)
    elapsedMs,            \* RecordingScreen: useState(0), the time shown
    permissionDenied,     \* RecordingScreen: useState(false)
    recordingRef,         \* RecordingScreen: recordingRef.current, a session or null
    timerRef,             \* RecordingScreen: the live interval of timerRef.current, or null
    recordingEffectRan,   \* RecordingScreen: its mount effect (initRecording) has run
    alert,                \* the Alert on screen whose button goes back, or null
    recordingStatus,      \* expo-av: the Audio.Recording is "none", "recording" or "stopped"
    elapsed               \* Date.now() - startTime of the session, in ms

\* The state of the screens
screenVars == <<pendingAudioBuffer, route, routeParams, processingRef, timeoutId,
                effectMounted>>

\* The state of RecordingScreen and of the recorder
recordingVars == <<isRecording, elapsedMs, permissionDenied, recordingRef, timerRef,
                   recordingEffectRan, alert, recordingStatus, elapsed>>

vars == <<INSIGHT_RULES, calls, screenVars, recordingVars>>

---------------------------------------------------------------------------
(* JavaScript Number arithmetic *)

Abs(x) == IF x < 0 THEN -x ELSE x

Sgn(x) == IF x < 0 THEN -1 ELSE IF x > 0 THEN 1 ELSE 0

RECURSIVE GCD(_, _)
GCD(a, b) == IF b = 0 THEN a ELSE GCD(b, a % b)

\* The number n/d: lowest terms, positive denominator; d = 0 gives NaN or +-Infinity.
Q(n, d) ==
    IF d = 0 THEN [n |-> Sgn(n), d |-> 0]
    ELSE LET g == GCD(Abs(n), Abs(d))
             s == IF d < 0 THEN -1 ELSE 1
         IN  [n |-> s * (n \div g), d |-> s * (d \div g)]

NaN == [n |-> 0, d |-> 0]

Num(i) == [n |-> i, d |-> 1]

IsNaN(a) == a.n = 0 /\ a.d = 0

IsFinite(a) == a.d > 0

IsInteger(a) == a.d = 1

Neg(a) == [n |-> -a.n, d |-> a.d]

Plus(a, b) ==
    IF a.d = 0 /\ b.d = 0
    THEN (IF a.n = b.n THEN a ELSE NaN)
    ELSE Q(a.n * b.d + b.n * a.d, a.d * b.d)

Minus(a, b) == Plus(a, Neg(b))

Times(a, b) == Q(a.n * b.n, a.d * b.d)

Over(a, b) == Times(a, Q(b.d, b.n))

\* a < b; every comparison with NaN is false
Lt(a, b) ==
    IF IsNaN(a) \/ IsNaN(b) THEN FALSE
    ELSE IF a.d = 0 /\ b.d = 0 THEN a.n < b.n
    ELSE a.n * b.d < b.n * a.d

Gt(a, b) == Lt(b, a)

Le(a, b) == ~IsNaN(a) /\ ~IsNaN(b) /\ ~Lt(b, a)

Ge(a, b) == Le(b, a)

MathMax(a, b) == IF IsNaN(a) \/ IsNaN(b) THEN NaN ELSE IF Lt(a, b) THEN b ELSE a

MathMin(a, b) == IF IsNaN(a) \/ IsNaN(b) THEN NaN ELSE IF Lt(b, a) THEN b ELSE a

MathAbs(a) == [n |-> Abs(a.n), d |-> a.d]

\* Math.round: the nearest integer, halves rounded up (floor(x + 1/2))
MathRound(a) == IF a.d = 0 THEN a ELSE Num((2 * a.n + a.d) \div (2 * a.d))

MathFloor(a) == IF a.d = 0 THEN a ELSE Num(a.n \div a.d)

MathCeil(a) == IF a.d = 0 THEN a ELSE Num(-((-a.n) \div a.d))

\* Precision of Math.sqrt on a number that is not the square of a fraction:
\* the result is the largest multiple of 1/SqrtPrecision not above the root.
SqrtPrecision == 100

RECURSIVE IsqrtBetween(_, _, _)
IsqrtBetween(x, lo, hi) ==
    IF lo >= hi THEN lo
    ELSE LET mid == (lo + hi + 1) \div 2
         IN  IF mid * mid <= x THEN IsqrtBetween(x, mid, hi)
             ELSE IsqrtBetween(x, lo, mid - 1)

\* The integer square root (floor)
Isqrt(x) == IsqrtBetween(x, 0, IF x < 46340 THEN x ELSE 46340)

MathSqrt(a) ==
    IF a.d = 0 THEN (IF a.n > 0 THEN a ELSE NaN)
    ELSE IF a.n < 0 THEN NaN
    ELSE LET rn == Isqrt(a.n)
             rd == Isqrt(a.d)
         IN  IF rn * rn = a.n /\ rd * rd = a.d THEN Q(rn, rd)
             ELSE Q(Isqrt((a.n * SqrtPrecision * SqrtPrecision) \div a.d), SqrtPrecision)

\* Math.cos and Math.sin of 2*pi*turn, for the angles the model reaches
\* (multiples of a quarter, a third and a sixth of a turn)
MathCosTurn(turn) ==
    LET t == Minus(turn, MathFloor(turn))
    IN  CASE t = Num(0) -> Num(1)
          [] t = Q(1, 6) -> Q(1, 2)
          [] t = Q(1, 4) -> Num(0)
          [] t = Q(1, 3) -> Q(-1, 2)
          [] t = Q(1, 2) -> Num(-1)
          [] t = Q(2, 3) -> Q(-1, 2)
          [] t = Q(3, 4) -> Num(0)
          [] t = Q(5, 6) -> Q(1, 2)

MathSinTurn(turn) ==
    LET t == Minus(turn, MathFloor(turn))
    IN  CASE t = Num(0) -> Num(0)
          [] t = Q(1, 4) -> Num(1)
          [] t = Q(1, 2) -> Num(0)
          [] t = Q(3, 4) -> Num(-1)

null == [null |-> TRUE]

\* arr[i] of a JavaScript array (0-based); an index outside it reads
\* undefined, which is NaN in arithmetic and comparisons
At(arr, i) == IF i >= 0 /\ i < Len(arr) THEN arr[i + 1] ELSE NaN

\* arr with arr[i] = v done (0-based)
Store(arr, i, v) == [arr EXCEPT ![i + 1] = v]

\* TypedArray.prototype.subarray(start, end) with 0 <= start
subarray(arr, start, end) ==
    SubSeq(arr, start + 1, IF end < Len(arr) THEN end ELSE Len(arr))

\* new Float32Array(n): n zeros
Float32Array(n) == [i \in 1..n |-> Num(0)]

\* values.reduce((a, b) => a + b, 0)
RECURSIVE SumOf(_)
SumOf(values) == IF values = <<>> THEN Num(0) ELSE Plus(SumOf(SubSeq(values, 1, Len(values) - 1)), values[Len(values)])

---------------------------------------------------------------------------
(* ScoreCalculator *)

\* clamp without its upper bound
clampLowerOnly(value, min, max) == MathMax(min, value)

clamp(value, min, max) == MathMax(min, MathMin(max, value))

lerp(value, inMin, inMax, outMin, outMax) ==
    LET normalized == Over(Minus(value, inMin), Minus(inMax, inMin))
    IN  Plus(outMin, Times(normalized, Minus(outMax, outMin)))

normalizeToScore(value, typicalMin, typicalMax) ==
    LET normalized == lerp(value, typicalMin, typicalMax, Num(0), Num(100))
    IN  clamp(normalized, Num(0), Num(100))

signalQuality(features) ==
    LET rmsQuality == clamp(lerp(features.rms, Q(15, 1000), Q(5, 100), Num(0), Num(1)),
                            Num(0), Num(1))
        voicedQuality == clamp(lerp(features.voicedRatio, Q(1, 10), Q(4, 10), Num(0), Num(1)),
                               Num(0), Num(1))
    IN  Times(rmsQuality, voicedQuality)

calculateEnergy(features) ==
    LET rmsScore == normalizeToScore(features.rms, Q(1, 100), Q(25, 100))
        centroidScore == normalizeToScore(features.spectralCentroid, Num(500), Num(3500))
        energy == Plus(Times(rmsScore, Q(7, 10)), Times(centroidScore, Q(3, 10)))
    IN  MathRound(clamp(energy, Num(0), Num(100)))

calculateTension(features) ==
    LET pitchVarScore == normalizeToScore(features.pitchVariance, Q(5, 100), Q(25, 100))
        jitterScore == normalizeToScore(features.jitterProxy, Q(1, 100), Q(8, 100))
        zcrScore == normalizeToScore(features.zeroCrossingRate, Q(5, 100), Q(18, 100))
        tension == Plus(Plus(Times(pitchVarScore, Q(6, 10)), Times(jitterScore, Q(2, 10))),
                        Times(zcrScore, Q(2, 10)))
    IN  MathRound(clamp(tension, Num(0), Num(100)))

calculateClarity(features) ==
    LET zcrClarity == Minus(Num(100),
                            normalizeToScore(features.zeroCrossingRate, Q(5, 100), Q(2, 10)))
        voicedScore == Times(features.voicedRatio, Num(100))
        centroidDeviation == Over(MathAbs(Minus(features.spectralCentroid, Num(1800))),
                                  Num(1800))
        centroidScore == clamp(Minus(Num(100), Times(centroidDeviation, Num(50))),
                               Num(0), Num(100))
        clarity == Plus(Plus(Times(zcrClarity, Q(5, 10)), Times(voicedScore, Q(3, 10))),
                        Times(centroidScore, Q(2, 10)))
    IN  MathRound(clamp(clarity, Num(0), Num(100)))

\* The weighted combinations of calculateEnergy, calculateTension and
\* calculateClarity before their clamp and Math.round
energyRaw(features) ==
    Plus(Times(normalizeToScore(features.rms, Q(1, 100), Q(25, 100)), Q(7, 10)),
         Times(normalizeToScore(features.spectralCentroid, Num(500), Num(3500)), Q(3, 10)))

tensionRaw(features) ==
    Plus(Plus(Times(normalizeToScore(features.pitchVariance, Q(5, 100), Q(25, 100)), Q(6, 10)),
              Times(normalizeToScore(features.jitterProxy, Q(1, 100), Q(8, 100)), Q(2, 10))),
         Times(normalizeToScore(features.zeroCrossingRate, Q(5, 100), Q(18, 100)), Q(2, 10)))

clarityRaw(features) ==
    Plus(Plus(Times(Minus(Num(100), normalizeToScore(features.zeroCrossingRate,
                                                     Q(5, 100), Q(2, 10))), Q(5, 10)),
              Times(Times(features.voicedRatio, Num(100)), Q(3, 10))),
         Times(clamp(Minus(Num(100),
                           Times(Over(MathAbs(Minus(features.spectralCentroid, Num(1800))),
                                      Num(1800)), Num(50))),
                     Num(0), Num(100)), Q(2, 10)))

\* quality < 0.25: the low-quality branch of calculateScores is taken
GuardrailActive(features) == Lt(signalQuality(features), Q(25, 100))

\* calculateScores without the guardrail
calculateScoresUnattenuated(features) ==
    [energy  |-> calculateEnergy(features),
     tension |-> calculateTension(features),
     clarity |-> calculateClarity(features)]

\* calculateScores with the guardrail test inverted (quality > 0.25)
calculateScoresInvertedGuard(features) ==
    LET quality == signalQuality(features)
    IN  IF Gt(quality, Q(25, 100))
        THEN [energy  |-> MathRound(clamp(Times(calculateEnergy(features), quality),
                                          Num(0), Num(35))),
              tension |-> MathRound(clamp(Times(calculateTension(features), quality),
                                          Num(0), Num(35))),
              clarity |-> MathRound(clamp(Times(calculateClarity(features), quality),
                                          Num(0), Num(35)))]
        ELSE [energy  |-> calculateEnergy(features),
              tension |-> calculateTension(features),
              clarity |-> calculateClarity(features)]

calculateScores(features) ==
    LET quality == signalQuality(features)
    IN  IF Lt(quality, Q(25, 100))
        THEN [energy  |-> MathRound(clamp(Times(calculateEnergy(features), quality),
                                          Num(0), Num(35))),
              tension |-> MathRound(clamp(Times(calculateTension(features), quality),
                                          Num(0), Num(35))),
              clarity |-> MathRound(clamp(Times(calculateClarity(features), quality),
                                          Num(0), Num(35)))]
        ELSE [energy  |-> calculateEnergy(features),
              tension |-> calculateTension(features),
              clarity |-> calculateClarity(features)]

\* calculateConfidence with the medium test on rms alone
calculateConfidenceRmsOnly(features) ==
    IF Lt(features.rms, Q(15, 1000)) THEN "low"
    ELSE IF Lt(features.durationSeconds, Num(3)) THEN "low"
    ELSE IF Lt(features.voicedRatio, Q(1, 10)) THEN "low"
    ELSE IF Lt(features.rms, Q(3, 100)) THEN "medium"
    ELSE "high"

\* calculateConfidence with the medium test made inclusive (<=)
calculateConfidenceInclusive(features) ==
    IF Lt(features.rms, Q(15, 1000)) THEN "low"
    ELSE IF Lt(features.durationSeconds, Num(3)) THEN "low"
    ELSE IF Lt(features.voicedRatio, Q(1, 10)) THEN "low"
    ELSE IF Le(features.rms, Q(3, 100)) \/ Le(features.voicedRatio, Q(3, 10)) THEN "medium"
    ELSE "high"

calculateConfidence(features) ==
    IF Lt(features.rms, Q(15, 1000)) THEN "low"
    ELSE IF Lt(features.durationSeconds, Num(3)) THEN "low"
    ELSE IF Lt(features.voicedRatio, Q(1, 10)) THEN "low"
    ELSE IF Lt(features.rms, Q(3, 100)) \/ Lt(features.voicedRatio, Q(3, 10)) THEN "medium"
    ELSE "high"

---------------------------------------------------------------------------
(* InsightEngine *)

\* The table as declared: id, priority and message of each rule, in
\* declaration order.  A rule's condition is RuleCondition below.
InsightRulesDeclared ==
    << [id |-> "too_quiet", priority |-> 100,
        message |-> "This sample is very quiet - results may be less reliable."],
       [id |-> "no_voice", priority |-> 95,
        message |-> "No clear voice signal detected. Try speaking closer to the microphone."],
       [id |-> "very_short", priority |-> 90,
        message |-> "Recording was very short - results may be less reliable."],
       [id |-> "high_tension", priority |-> 80,
        message |-> "More tension-like signal than typical speech."],
       [id |-> "very_high_energy", priority |-> 70,
        message |-> "Higher energy signal in this sample."],
       [id |-> "very_low_energy", priority |-> 70,
        message |-> "Lower energy signal - voice may sound subdued."],
       [id |-> "low_clarity", priority |-> 60,
        message |-> "This sample has more noise than typical speech."],
       [id |-> "high_clarity", priority |-> 50,
        message |-> "Clear, well-projected voice signal detected."],
       [id |-> "balanced", priority |-> 10,
        message |-> "Voice signal detected within typical range."] >>

\* The rules with a 'balanced' rule that tests the scores instead of being
\* always true
RuleConditionBalancedTested(rule, features, scores) ==
    CASE rule.id = "too_quiet"        -> Lt(features.rms, Q(15, 1000))
      [] rule.id = "no_voice"         -> Lt(features.voicedRatio, Q(1, 10))
      [] rule.id = "very_short"       -> Lt(features.durationSeconds, Num(5))
      [] rule.id = "high_tension"     -> Gt(scores.tension, Num(75))
      [] rule.id = "very_high_energy" -> Gt(scores.energy, Num(80))
      [] rule.id = "very_low_energy"  -> Lt(scores.energy, Num(25))
      [] rule.id = "low_clarity"      -> Lt(scores.clarity, Num(35))
      [] rule.id = "high_clarity"     -> Gt(scores.clarity, Num(80)) /\ Gt(scores.energy, Num(50))
      [] rule.id = "balanced"         -> Ge(scores.clarity, Num(35)) /\ Le(scores.clarity, Num(80))

RuleCondition(rule, features, scores) ==
    CASE rule.id = "too_quiet"        -> Lt(features.rms, Q(15, 1000))
      [] rule.id = "no_voice"         -> Lt(features.voicedRatio, Q(1, 10))
      [] rule.id = "very_short"       -> Lt(features.durationSeconds, Num(5))
      [] rule.id = "high_tension"     -> Gt(scores.tension, Num(75))
      [] rule.id = "very_high_energy" -> Gt(scores.energy, Num(80))
      [] rule.id = "very_low_energy"  -> Lt(scores.energy, Num(25))
      [] rule.id = "low_clarity"      -> Lt(scores.clarity, Num(35))
      [] rule.id = "high_clarity"     -> Gt(scores.clarity, Num(80)) /\ Gt(scores.energy, Num(50))
      [] rule.id = "balanced"         -> TRUE

\* The comparator with its operands swapped (ascending priority)
comparePriorityAscending(a, b) == a.priority - b.priority

\* The comparator handed to sort: (a, b) => b.priority - a.priority
comparePriority(a, b) == b.priority - a.priority

\* Array.prototype.sort is stable: r goes after every element that does not
\* compare greater than it.
RECURSIVE InsertSorted(_, _)
InsertSorted(sorted, r) ==
    IF sorted = <<>> THEN <<r>>
    ELSE IF comparePriority(Head(sorted), r) <= 0
         THEN <<Head(sorted)>> \o InsertSorted(Tail(sorted), r)
         ELSE <<r>> \o sorted

RECURSIVE ArraySort(_)
ArraySort(arr) ==
    IF arr = <<>> THEN <<>>
    ELSE InsertSorted(ArraySort(SubSeq(arr, 1, Len(arr) - 1)), arr[Len(arr)])

RECURSIVE ArrayReverse(_)
ArrayReverse(arr) ==
    IF arr = <<>> THEN <<>> ELSE Append(ArrayReverse(Tail(arr)), Head(arr))

\* The table reversed in place (INSIGHT_RULES.reverse()) instead of copied
\* and sorted
sortedRulesReversedInPlace(table) ==
    [sortedRules |-> ArrayReverse(table), INSIGHT_RULES |-> ArrayReverse(table)]

\* const sortedRules = [...INSIGHT_RULES].sort(...): the sorted copy, and the
\* table as the statement leaves it.
sortedRulesOf(table) == [sortedRules |-> ArraySort(table), INSIGHT_RULES |-> table]

\* for (const rule of sortedRules) if (rule.condition(...)) return rule.message
RECURSIVE FirstMatchingMessage(_, _, _)
FirstMatchingMessage(rules, features, scores) ==
    IF rules = <<>> THEN "Voice signal analyzed."
    ELSE IF RuleCondition(Head(rules), features, scores) THEN Head(rules).message
    ELSE FirstMatchingMessage(Tail(rules), features, scores)

\* generateInsight run against the table `table`: the message returned and
\* the table afterwards.
generateInsight(table, features, scores) ==
    LET s == sortedRulesOf(table)
    IN  [message |-> FirstMatchingMessage(s.sortedRules, features, scores),
         INSIGHT_RULES |-> s.INSIGHT_RULES]

\* sortedRules.filter(rule => rule.condition(features, scores)).map(rule => rule.message)
RECURSIVE MatchingMessages(_, _, _)
MatchingMessages(rules, features, scores) ==
    IF rules = <<>> THEN <<>>
    ELSE IF RuleCondition(Head(rules), features, scores)
         THEN <<Head(rules).message>> \o MatchingMessages(Tail(rules), features, scores)
         ELSE MatchingMessages(Tail(rules), features, scores)

\* getAllMatchingInsights with find in place of filter: the first match only
getAllMatchingInsightsFirstOnly(table, features, scores) ==
    LET s == sortedRulesOf(table)
    IN  [messages |-> <<FirstMatchingMessage(s.sortedRules, features, scores)>>,
         INSIGHT_RULES |-> s.INSIGHT_RULES]

\* getAllMatchingInsights run against the table `table`: the messages
\* returned and the table afterwards.
getAllMatchingInsights(table, features, scores) ==
    LET s == sortedRulesOf(table)
    IN  [messages |-> MatchingMessages(s.sortedRules, features, scores),
         INSIGHT_RULES |-> s.INSIGHT_RULES]

\* getInsightCategory with the duration test of calculateConfidence (< 3)
getInsightCategoryShortAt3(features, scores) ==
    IF Lt(features.rms, Q(15, 1000)) \/ Lt(features.voicedRatio, Q(1, 10))
       \/ Lt(features.durationSeconds, Num(3))
    THEN "warning"
    ELSE IF Gt(scores.clarity, Num(75)) /\ Gt(scores.energy, Num(50))
            /\ Lt(scores.tension, Num(50))
    THEN "positive"
    ELSE "neutral"

\* getInsightCategory with the voicedRatio test left out of the warning test
getInsightCategoryNoVoiceTest(features, scores) ==
    IF Lt(features.rms, Q(15, 1000)) \/ Lt(features.durationSeconds, Num(5))
    THEN "warning"
    ELSE IF Gt(scores.clarity, Num(75)) /\ Gt(scores.energy, Num(50))
            /\ Lt(scores.tension, Num(50))
    THEN "positive"
    ELSE "neutral"

\* getInsightCategory with the positive test made before the warning test
getInsightCategoryPositiveFirst(features, scores) ==
    IF Gt(scores.clarity, Num(75)) /\ Gt(scores.energy, Num(50))
       /\ Lt(scores.tension, Num(50))
    THEN "positive"
    ELSE IF Lt(features.rms, Q(15, 1000)) \/ Lt(features.voicedRatio, Q(1, 10))
            \/ Lt(features.durationSeconds, Num(5))
    THEN "warning"
    ELSE "neutral"

getInsightCategory(features, scores) ==
    IF Lt(features.rms, Q(15, 1000)) \/ Lt(features.voicedRatio, Q(1, 10))
       \/ Lt(features.durationSeconds, Num(5))
    THEN "warning"
    ELSE IF Gt(scores.clarity, Num(75)) /\ Gt(scores.energy, Num(50))
            /\ Lt(scores.tension, Num(50))
    THEN "positive"
    ELSE "neutral"

---------------------------------------------------------------------------
(* PitchDetector *)

DEFAULT_CONFIG ==
    [sampleRate |-> 16000, frameSize |-> 1024, minFreq |-> 50, maxFreq |-> 600,
     threshold |-> Q(15, 100)]

differenceFunction(samples, size) ==
    [t \in 1..size |->
        LET tau == t - 1
        IN  SumOf([k \in 1..(size - tau) |->
                LET delta == Minus(At(samples, k - 1), At(samples, k - 1 + tau))
                IN  Times(delta, delta)])]

cumulativeMeanNormalized(diff) ==
    [t \in 1..Len(diff) |->
        LET tau == t - 1
            runningSum == SumOf(SubSeq(diff, 2, t))
        IN  IF tau = 0 THEN Num(1)
            ELSE Over(diff[t], Over(runningSum, Num(tau)))]

\* The loop of findFirstMinimum from lag tau on
RECURSIVE FirstMinimumFrom(_, _, _, _)
FirstMinimumFrom(cmnd, threshold, tau, maxLag) ==
    IF ~(tau < maxLag /\ tau < Len(cmnd)) THEN null
    ELSE LET prev == At(cmnd, tau - 1)
             curr == At(cmnd, tau)
             next == At(cmnd, tau + 1)
         IN  IF Lt(curr, threshold) /\ Gt(prev, curr) /\ Gt(next, curr)
             THEN LET delta == Over(Minus(prev, next),
                                    Times(Num(2), Plus(Minus(prev, Times(Num(2), curr)), next)))
                  IN  [tau |-> Plus(Num(tau), delta), confidence |-> Minus(Num(1), curr)]
             ELSE FirstMinimumFrom(cmnd, threshold, tau + 1, maxLag)

findFirstMinimum(cmnd, threshold, minLag, maxLag) ==
    FirstMinimumFrom(cmnd, threshold, minLag, maxLag)

\* config gives sampleRate and frameSize; the other fields are the defaults
detectPitchYIN(samples, config) ==
    LET cfg == [DEFAULT_CONFIG EXCEPT !.sampleRate = config.sampleRate,
                                      !.frameSize = config.frameSize]
        minLag == MathFloor(Q(cfg.sampleRate, cfg.maxFreq)).n
        ceilLag == MathCeil(Q(cfg.sampleRate, cfg.minFreq)).n
        maxLag == IF ceilLag < cfg.frameSize - 1 THEN ceilLag ELSE cfg.frameSize - 1
        diff == differenceFunction(samples, cfg.frameSize)
        cmnd == cumulativeMeanNormalized(diff)
        minimum == findFirstMinimum(cmnd, cfg.threshold, minLag, maxLag)
    IN  IF minimum = null
        THEN [pitch |-> Num(0), confidence |-> Num(0), isVoiced |-> FALSE]
        ELSE [pitch |-> Over(Num(cfg.sampleRate), minimum.tau),
              confidence |-> minimum.confidence,
              isVoiced |-> Gt(minimum.confidence, Q(1, 2))]

\* The frame count with the frame size not subtracted: one frame per hop
FrameCountPerHop(length, size, hop) == MathFloor(Q(length, hop)).n + 1

\* Math.floor((length - size) / hop) + 1
FrameCount(length, size, hop) == MathFloor(Q(length - size, hop)).n + 1

detectPitchFrames(samples, sampleRate, size, hop) ==
    LET totalFrames == FrameCount(Len(samples), size, hop)
        results == [i \in 1..totalFrames |->
                       detectPitchYIN(subarray(samples, (i - 1) * hop, (i - 1) * hop + size),
                                      [sampleRate |-> sampleRate, frameSize |-> size])]
    IN  [pitches |-> [i \in 1..totalFrames |-> results[i].pitch],
         confidences |-> [i \in 1..totalFrames |-> results[i].confidence],
         voicedFrames |-> Cardinality({i \in 1..totalFrames : results[i].isVoiced}),
         totalFrames |-> totalFrames]

---------------------------------------------------------------------------
(* FeatureExtractor *)

\* The frame grid.  The source uses frameSize = 1024 and hopSize = 512; the
\* model keeps their ratio and scales both by 1/256, so that every frame,
\* its 4-point FFT and its lags can be enumerated.
frameSize == 4

hopSize == 2

\* The bit-reversal permutation of fft: the loop body for index i, then the
\* rest of the loop.  st holds real, imag and j.
RECURSIVE ClearBits(_, _)
ClearBits(j, k) ==
    \* while (k & j) { j &= ~k; k >>= 1 }  followed by  j |= k
    IF k > 0 /\ (j \div k) % 2 = 1 THEN ClearBits(j - k, k \div 2) ELSE j + k

RECURSIVE BitReversal(_, _, _)
BitReversal(st, i, n) ==
    IF i >= n THEN st
    ELSE LET swapped ==
                 IF i < st.j
                 THEN [st EXCEPT !.real = Store(Store(st.real, i, At(st.real, st.j)),
                                                st.j, At(st.real, i)),
                                 !.imag = Store(Store(st.imag, i, At(st.imag, st.j)),
                                                st.j, At(st.imag, i))]
                 ELSE st
         IN  BitReversal([swapped EXCEPT !.j = ClearBits(st.j, n \div 2)], i + 1, n)

\* The innermost butterfly loop: for (let j = 0; j < length / 2; j++)
RECURSIVE ButterflyJ(_, _, _, _, _, _, _, _)
ButterflyJ(st, length, i, j, wReal, wImag, wlenReal, wlenImag) ==
    IF j >= length \div 2 THEN st
    ELSE LET half == length \div 2
             uReal == At(st.real, i + j)
             uImag == At(st.imag, i + j)
             vReal == Minus(Times(At(st.real, i + j + half), wReal),
                            Times(At(st.imag, i + j + half), wImag))
             vImag == Plus(Times(At(st.real, i + j + half), wImag),
                           Times(At(st.imag, i + j + half), wReal))
             real1 == Store(Store(st.real, i + j, Plus(uReal, vReal)),
                            i + j + half, Minus(uReal, vReal))
             imag1 == Store(Store(st.imag, i + j, Plus(uImag, vImag)),
                            i + j + half, Minus(uImag, vImag))
             nextWReal == Minus(Times(wReal, wlenReal), Times(wImag, wlenImag))
             nextWImag == Plus(Times(wReal, wlenImag), Times(wImag, wlenReal))
         IN  ButterflyJ([st EXCEPT !.real = real1, !.imag = imag1], length, i, j + 1,
                        nextWReal, nextWImag, wlenReal, wlenImag)

\* for (let i = 0; i < n; i += length)
RECURSIVE ButterflyI(_, _, _, _)
ButterflyI(st, length, i, n) ==
    IF i >= n THEN st
    ELSE ButterflyI(ButterflyJ(st, length, i, 0, Num(1), Num(0),
                               MathCosTurn(Q(-1, length)), MathSinTurn(Q(-1, length))),
                    length, i + length, n)

\* for (let length = 2; length <= n; length <<= 1)
RECURSIVE ButterflyStages(_, _, _)
ButterflyStages(st, length, n) ==
    IF length > n THEN st
    ELSE ButterflyStages(ButterflyI(st, length, 0, n), length * 2, n)

\* fft(real, imag): the two arrays after the in-place transform
fft(real, imag) ==
    LET n == Len(real)
    IN  IF n <= 1 THEN [real |-> real, imag |-> imag]
        ELSE LET permuted == BitReversal([real |-> real, imag |-> imag, j |-> 0], 0, n)
                 done == ButterflyStages(permuted, 2, n)
             IN  [real |-> done.real, imag |-> done.imag]

magnitudeSpectrum(real, imag) ==
    [i \in 1..(Len(real) \div 2) |->
        MathSqrt(Plus(Times(real[i], real[i]), Times(imag[i], imag[i])))]

spectralCentroidUnguarded(magSpectrum, sampleRate, fftSize) ==
    LET numerator == SumOf([i \in 1..Len(magSpectrum) |->
                               Times(Q((i - 1) * sampleRate, fftSize), magSpectrum[i])])
        denominator == SumOf(magSpectrum)
    IN  Over(numerator, denominator)

spectralCentroid(magSpectrum, sampleRate, fftSize) ==
    LET numerator == SumOf([i \in 1..Len(magSpectrum) |->
                               Times(Q((i - 1) * sampleRate, fftSize), magSpectrum[i])])
        denominator == SumOf(magSpectrum)
    IN  IF denominator = Num(0) THEN Num(0) ELSE Over(numerator, denominator)

zeroCrossingRate(samples) ==
    LET crossings == Cardinality({i \in 1..(Len(samples) - 1) :
                         Ge(At(samples, i), Num(0)) # Ge(At(samples, i - 1), Num(0))})
    IN  Q(crossings, Len(samples) - 1)

rmsEnergy(samples) ==
    IF Len(samples) = 0 THEN Num(0)
    ELSE LET sumSquares == SumOf([i \in 1..Len(samples) |-> Times(samples[i], samples[i])])
         IN  MathSqrt(Over(sumSquares, Num(Len(samples))))

\* A new array: the caller's samples are read, not written
applyHannWindow(samples) ==
    [i \in 1..Len(samples) |->
        LET windowVal == Times(Q(1, 2),
                               Minus(Num(1), MathCosTurn(Q(i - 1, Len(samples) - 1))))
        IN  Times(samples[i], windowVal)]

\* Math.pow(2, Math.ceil(Math.log2(n))) for n >= 1
RECURSIVE NextPowerOfTwo(_, _)
NextPowerOfTwo(n, p) == IF p >= n THEN p ELSE NextPowerOfTwo(n, 2 * p)

analyzeFrame(samples, sampleRate) ==
    LET windowed == applyHannWindow(samples)
        fftSize == NextPowerOfTwo(Len(samples), 1)
        \* real.set(windowed) on a zero-filled array of fftSize elements
        real == [i \in 1..fftSize |-> IF i <= Len(windowed) THEN windowed[i] ELSE Num(0)]
        imag == Float32Array(fftSize)
        transformed == fft(real, imag)
        magSpectrum == magnitudeSpectrum(transformed.real, transformed.imag)
    IN  [centroid |-> spectralCentroid(magSpectrum, sampleRate, fftSize),
         zcr |-> zeroCrossingRate(samples),
         rms |-> rmsEnergy(samples)]

variance(values) ==
    IF Len(values) < 2 THEN Num(0)
    ELSE LET mean == Over(SumOf(values), Num(Len(values)))
             squaredDiffs == [i \in 1..Len(values) |->
                                 Times(Minus(values[i], mean), Minus(values[i], mean))]
         IN  Over(SumOf(squaredDiffs), Num(Len(values)))

coefficientOfVariation(values) ==
    IF Len(values) < 2 THEN Num(0)
    ELSE LET mean == Over(SumOf(values), Num(Len(values)))
         IN  IF mean = Num(0) THEN Num(0)
             ELSE Over(MathSqrt(variance(values)), mean)

\* values.filter(p => p > 0)
RECURSIVE FilterPositive(_)
FilterPositive(values) ==
    IF values = <<>> THEN <<>>
    ELSE IF Gt(Head(values), Num(0)) THEN <<Head(values)>> \o FilterPositive(Tail(values))
    ELSE FilterPositive(Tail(values))

\* |v[i] - v[i-1]| / ((v[i] + v[i-1]) / 2) for the pair ending at index i (0-based)
RelativeDifference(values, i) ==
    Over(MathAbs(Minus(At(values, i), At(values, i - 1))),
         Over(Plus(At(values, i), At(values, i - 1)), Num(2)))

\* The 0-based indices i >= 1 of values whose pair (i-1, i) has a positive average
ValidPairs(values) ==
    {i \in 1..(Len(values) - 1) :
        Gt(Over(Plus(At(values, i), At(values, i - 1)), Num(2)), Num(0))}

\* The sum of the relative differences of the valid pairs, in index order
RECURSIVE RelativeDifferenceSum(_, _)
RelativeDifferenceSum(values, i) ==
    IF i < 1 THEN Num(0)
    ELSE IF i \in ValidPairs(values)
         THEN Plus(RelativeDifferenceSum(values, i - 1), RelativeDifference(values, i))
         ELSE RelativeDifferenceSum(values, i - 1)

\* values.reduce((a, b) => a + b, 0) / values.length
ArrayMean(values) == Over(SumOf(values), Num(Len(values)))

\* The frames of the buffer, each analysed: frame i starts at sample i * hopSize
analyzedFrames(samples, sampleRate) ==
    [i \in 1..FrameCount(Len(samples), frameSize, hopSize) |->
        analyzeFrame(subarray(samples, (i - 1) * hopSize, (i - 1) * hopSize + frameSize),
                     sampleRate)]

\* Frame-to-frame pitch variation: the mean over the valid pairs
jitterProxy(validPitches) ==
    IF Cardinality(ValidPairs(validPitches)) > 0
    THEN Over(RelativeDifferenceSum(validPitches, Len(validPitches) - 1),
              Num(Cardinality(ValidPairs(validPitches))))
    ELSE Num(0)

\* Frame-to-frame amplitude variation: the sum over the valid pairs divided
\* by the number of all pairs
shimmerProxy(frameRMSs) ==
    IF Len(frameRMSs) > 1
    THEN Over(RelativeDifferenceSum(frameRMSs, Len(frameRMSs) - 1), Num(Len(frameRMSs) - 1))
    ELSE Num(0)

\* The statistics of extractFeatures, from its per-frame arrays
FeatureStatistics(audioBuffer, frameCentroids, frameZCRs, frameRMSs, tracked, validPitches) ==
    [rms |-> ArrayMean(frameRMSs),
     pitchMean |-> IF Len(validPitches) > 0 THEN ArrayMean(validPitches) ELSE Num(0),
     pitchVariance |-> coefficientOfVariation(validPitches),
     spectralCentroid |-> ArrayMean(frameCentroids),
     zeroCrossingRate |-> ArrayMean(frameZCRs),
     voicedRatio |-> IF tracked.totalFrames > 0
                     THEN Q(tracked.voicedFrames, tracked.totalFrames)
                     ELSE Num(0),
     jitterProxy |-> MathMin(jitterProxy(validPitches), Num(1)),
     shimmerProxy |-> MathMin(shimmerProxy(frameRMSs), Num(1)),
     durationSeconds |-> Q(audioBuffer.durationMs, 1000)]

\* The per-frame arrays of extractFeatures and the pitch track of the buffer
FrameArrays(audioBuffer, frames, tracked) ==
    FeatureStatistics(audioBuffer,
                      [i \in 1..Len(frames) |-> frames[i].centroid],
                      [i \in 1..Len(frames) |-> frames[i].zcr],
                      [i \in 1..Len(frames) |-> frames[i].rms],
                      tracked, FilterPositive(tracked.pitches))

extractFeatures(audioBuffer) ==
    FrameArrays(audioBuffer,
                analyzedFrames(audioBuffer.samples, audioBuffer.sampleRate),
                detectPitchFrames(audioBuffer.samples, audioBuffer.sampleRate,
                                  frameSize, hopSize))

\* The arrays extractFeatures works on, as memory: the caller's samples, of
\* which each frame is a view (subarray shares the buffer of its array), and
\* the arrays analyzeFrame allocates.

\* applyHannWindow writing the windowed values back through the view
WindowFrameInPlace(memory, start) ==
    LET frame == subarray(memory.samples, start, start + frameSize)
        windowed == applyHannWindow(frame)
    IN  [memory EXCEPT !.windowed = windowed,
                       !.samples = [i \in 1..Len(memory.samples) |->
                                       IF i > start /\ i <= start + Len(frame)
                                       THEN windowed[i - start]
                                       ELSE memory.samples[i]]]

\* const windowed = applyHannWindow(samples): the view is read and the
\* values are written to a new array
WindowFrame(memory, start) ==
    LET frame == subarray(memory.samples, start, start + frameSize)
    IN  [memory EXCEPT !.windowed = applyHannWindow(frame)]

\* real and imag are new arrays; real.set(windowed) copies, and fft
\* transforms the two in place
TransformFrame(memory) ==
    LET fftSize == NextPowerOfTwo(Len(memory.windowed), 1)
        real == [i \in 1..fftSize |->
                    IF i <= Len(memory.windowed) THEN memory.windowed[i] ELSE Num(0)]
        transformed == fft(real, Float32Array(fftSize))
    IN  [memory EXCEPT !.real = transformed.real, !.imag = transformed.imag]

\* The frame loop of extractFeatures from frame i on
RECURSIVE MemoryAfterFrames(_, _, _)
MemoryAfterFrames(memory, i, numFrames) ==
    IF i >= numFrames THEN memory
    ELSE MemoryAfterFrames(TransformFrame(WindowFrame(memory, i * hopSize)), i + 1, numFrames)

\* The audioBuffer object as extractFeatures leaves it.  The function only
\* destructures the object; detectPitchFrames, zeroCrossingRate and rmsEnergy
\* read the views and write to arrays of their own.
BufferAfterExtractFeatures(audioBuffer) ==
    [audioBuffer EXCEPT !.samples =
        MemoryAfterFrames([samples |-> audioBuffer.samples, windowed |-> <<>>,
                           real |-> <<>>, imag |-> <<>>],
                          0, FrameCount(Len(audioBuffer.samples), frameSize, hopSize)).samples]

---------------------------------------------------------------------------
(* Inputs *)

\* Feature values handed to the scoring functions: every calibration bound
\* and threshold of ScoreCalculator, a value on each side of it, and the ends
\* of the documented range of the field.
RmsValues == {Num(0), Q(1, 100), Q(14, 1000), Q(15, 1000), Q(2, 100), Q(3, 100),
              Q(5, 100), Q(25, 100), Num(1)}

VoicedRatioValues == {Num(0), Q(5, 100), Q(1, 10), Q(2, 10), Q(3, 10), Q(4, 10), Num(1)}

CentroidValues == {Num(0), Num(500), Num(1800), Num(3500), Num(8000)}

ZcrValues == {Num(0), Q(5, 100), Q(1, 10), Q(18, 100), Num(1)}

PitchVarianceValues == {Num(0), Q(1, 10), Num(1)}

JitterValues == {Num(0), Q(3, 100), Num(1)}

DurationValues == {Num(0), Num(2), Num(3), Num(4), Num(5), Num(30)}

AcousticFeatures(rms, pitchVar, centroid, zcr, voiced, jitter, duration) ==
    [rms |-> rms, pitchMean |-> Num(150), pitchVariance |-> pitchVar,
     spectralCentroid |-> centroid, zeroCrossingRate |-> zcr,
     voicedRatio |-> voiced, jitterProxy |-> jitter,
     shimmerProxy |-> Q(5, 100), durationSeconds |-> duration]

\* Inputs of calculateScores (which does not read durationSeconds)
ScoreFeatures ==
    {AcousticFeatures(r, pv, c, z, v, j, Num(30)) :
        r \in RmsValues, pv \in PitchVarianceValues, c \in CentroidValues,
        z \in ZcrValues, v \in VoicedRatioValues, j \in JitterValues}

\* Inputs of calculateConfidence, generateInsight and getInsightCategory
\* (which read rms, voicedRatio and durationSeconds only)
SignalFeatures ==
    {AcousticFeatures(r, Q(1, 10), Num(2000), Q(1, 10), v, Q(3, 100), d) :
        r \in RmsValues, v \in VoicedRatioValues, d \in DurationValues}

\* Scores handed to generateInsight and getInsightCategory: each threshold of
\* a rule and the integers next to it
VoiceScoresGiven ==
    [energy  : {Num(0), Num(24), Num(25), Num(50), Num(51), Num(80), Num(81), Num(100)},
     tension : {Num(0), Num(49), Num(50), Num(75), Num(76)},
     clarity : {Num(34), Num(35), Num(75), Num(76), Num(80), Num(81)}]

\* The scores field of a logged call that takes no scores
NoScores == [energy |-> NaN, tension |-> NaN, clarity |-> NaN]

---------------------------------------------------------------------------
(* Calls of the exported functions *)

Called(fn, features, scores, out) ==
    calls' = Append(calls, [fn |-> fn, features |-> features, scores |-> scores, out |-> out])

CallCalculateScores(features) ==
    /\ Called("calculateScores", features, NoScores, calculateScores(features))
    /\ UNCHANGED <<INSIGHT_RULES, screenVars, recordingVars>>

CallCalculateConfidence(features) ==
    /\ Called("calculateConfidence", features, NoScores, calculateConfidence(features))
    /\ UNCHANGED <<INSIGHT_RULES, screenVars, recordingVars>>

CallGenerateInsight(features, scores) ==
    LET r == generateInsight(INSIGHT_RULES, features, scores)
    IN  /\ Called("generateInsight", features, scores, r.message)
        /\ INSIGHT_RULES' = r.INSIGHT_RULES
        /\ UNCHANGED <<screenVars, recordingVars>>

CallGetAllMatchingInsights(features, scores) ==
    LET r == getAllMatchingInsights(INSIGHT_RULES, features, scores)
    IN  /\ Called("getAllMatchingInsights", features, scores, r.messages)
        /\ INSIGHT_RULES' = r.INSIGHT_RULES
        /\ UNCHANGED <<screenVars, recordingVars>>

CallGetInsightCategory(features, scores) ==
    /\ Called("getInsightCategory", features, scores, getInsightCategory(features, scores))
    /\ UNCHANGED <<INSIGHT_RULES, screenVars, recordingVars>>

Init ==
    /\ INSIGHT_RULES = InsightRulesDeclared
    /\ calls = <<>>
    /\ pendingAudioBuffer = null
    /\ route = "Home"
    /\ routeParams = null
    /\ processingRef = FALSE
    /\ timeoutId = null
    /\ effectMounted = FALSE
    /\ isRecording = FALSE
    /\ elapsedMs = 0
    /\ permissionDenied = FALSE
    /\ recordingRef = null
    /\ timerRef = null
    /\ recordingEffectRan = FALSE
    /\ alert = null
    /\ recordingStatus = "none"
    /\ elapsed = 0

\* One call of a scoring or insight function, on any input of the grids
NextScoring ==
    /\ calls = <<>>
    /\ \/ \E f \in ScoreFeatures : CallCalculateScores(f)
       \/ \E f \in SignalFeatures : CallCalculateConfidence(f)
       \/ \E f \in SignalFeatures, s \in VoiceScoresGiven : CallGenerateInsight(f, s)
       \/ \E f \in SignalFeatures, s \in VoiceScoresGiven : CallGetInsightCategory(f, s)
       \/ \E f \in SignalFeatures, s \in VoiceScoresGiven : CallGetAllMatchingInsights(f, s)

SpecScoring == Init /\ [][NextScoring]_vars

---------------------------------------------------------------------------
(* Sequences of calls: the same functions called one after another *)

MaxCalls == 3

quietFeatures == AcousticFeatures(Q(1, 100), Num(1), Num(3500), Q(18, 100), Num(0),
                                  Num(1), Num(30))

goodFeatures == AcousticFeatures(Q(1, 10), Q(1, 10), Num(2000), Q(1, 10), Q(7, 10),
                                 Q(3, 100), Num(30))

shortFeatures == AcousticFeatures(Q(1, 10), Q(1, 10), Num(2000), Q(1, 10), Q(7, 10),
                                  Q(3, 100), Num(2))

RepeatedFeatures == {quietFeatures, goodFeatures, shortFeatures}

RepeatedScores == {[energy |-> Num(50), tension |-> Num(80), clarity |-> Num(50)],
                   [energy |-> Num(50), tension |-> Num(50), clarity |-> Num(50)]}

NextCalls ==
    /\ Len(calls) < MaxCalls
    /\ \/ \E f \in RepeatedFeatures : CallCalculateScores(f)
       \/ \E f \in RepeatedFeatures : CallCalculateConfidence(f)
       \/ \E f \in RepeatedFeatures, s \in RepeatedScores : CallGenerateInsight(f, s)
       \/ \E f \in RepeatedFeatures, s \in RepeatedScores : CallGetAllMatchingInsights(f, s)

SpecCalls == Init /\ [][NextCalls]_vars

---------------------------------------------------------------------------
(* Feature extraction on recorded buffers *)

MaxSamples == 7

SampleValues == {Q(-1, 2), Num(0), Q(1, 2)}

Float32Arrays == UNION {[1..n -> SampleValues] : n \in 0..MaxSamples}

DurationMsValues == {2500, 30000}

\* AudioBuffer (types.ts): mono buffers at a sample rate that puts the
\* shortest lag of the pitch search inside one frame
AudioBuffers ==
    {[samples |-> s, sampleRate |-> 1200, channels |-> 1, durationMs |-> d] :
        s \in Float32Arrays, d \in DurationMsValues}

\* A buffer object that carries no samples array
bufferWithoutSamples == [sampleRate |-> 1200, channels |-> 1, durationMs |-> 2500]

\* extractFeatures reads samples.length first: a TypeError when samples is missing
ThrowsTypeError(audioBuffer) == "samples" \notin DOMAIN audioBuffer

CallExtractFeatures(audioBuffer) ==
    /\ calls' = Append(calls,
           [fn |-> "extractFeatures", audioBuffer |-> audioBuffer,
            threw |-> ThrowsTypeError(audioBuffer),
            after |-> IF ThrowsTypeError(audioBuffer) THEN audioBuffer
                      ELSE BufferAfterExtractFeatures(audioBuffer),
            out |-> IF ThrowsTypeError(audioBuffer) THEN null
                    ELSE extractFeatures(audioBuffer)])
    /\ UNCHANGED <<INSIGHT_RULES, screenVars, recordingVars>>

NextExtract ==
    /\ calls = <<>>
    /\ \/ \E b \in AudioBuffers : CallExtractFeatures(b)
       \/ CallExtractFeatures(bufferWithoutSamples)

SpecExtract == Init /\ [][NextExtract]_vars

---------------------------------------------------------------------------
(* Frame decomposition: buffers of every length up to a few frames *)

MaxLength == 10

TwoLevelArrays == UNION {[1..n -> {Num(0), Q(1, 2)}] : n \in 0..MaxLength}

FrameBuffers ==
    {[samples |-> s, sampleRate |-> 1200, channels |-> 1, durationMs |-> 1000] :
        s \in TwoLevelArrays}

CallDetectPitchFrames(audioBuffer) ==
    /\ calls' = Append(calls,
           [fn |-> "detectPitchFrames", audioBuffer |-> audioBuffer, threw |-> FALSE,
            out |-> detectPitchFrames(audioBuffer.samples, audioBuffer.sampleRate,
                                      frameSize, hopSize)])
    /\ UNCHANGED <<INSIGHT_RULES, screenVars, recordingVars>>

NextFrames ==
    /\ calls = <<>>
    /\ \/ \E b \in FrameBuffers : CallDetectPitchFrames(b)
       \/ \E b \in FrameBuffers : CallExtractFeatures(b)

SpecFrames == Init /\ [][NextFrames]_vars

---------------------------------------------------------------------------
(* detectPitchYIN on one frame *)

\* Sample rates that put maxLag at frameSize - 1 (1200: the frame is the
\* limit; 150: ceil(sampleRate / minFreq) is exactly frameSize - 1) and below
\* it (100: the lag of minFreq lies inside the frame)
FrameSampleRates == {100, 150, 1200}

Frames == [1..frameSize -> SampleValues]

CallDetectPitchYIN(samples, config) ==
    /\ calls' = Append(calls,
           [fn |-> "detectPitchYIN", samples |-> samples, config |-> config,
            out |-> detectPitchYIN(samples, config)])
    /\ UNCHANGED <<INSIGHT_RULES, screenVars, recordingVars>>

NextYIN ==
    /\ calls = <<>>
    /\ \E samples \in Frames, sampleRate \in FrameSampleRates :
           CallDetectPitchYIN(samples, [sampleRate |-> sampleRate, frameSize |-> frameSize])

SpecYIN == Init /\ [][NextYIN]_vars

---------------------------------------------------------------------------
(* The screens: Home, Recording, Processing, Results *)

\* One frame of silence, a voiced buffer of two frames, and a buffer of no samples
silentBuffer ==
    [samples |-> <<Num(0), Num(0), Num(0), Num(0)>>,
     sampleRate |-> 1200, channels |-> 1, durationMs |-> 30000]

voicedBuffer ==
    [samples |-> <<Q(1, 2), Q(-1, 2), Q(1, 2), Q(-1, 2), Q(1, 2), Q(-1, 2)>>,
     sampleRate |-> 1200, channels |-> 1, durationMs |-> 30000]

emptyBuffer ==
    [samples |-> <<>>, sampleRate |-> 1200, channels |-> 1, durationMs |-> 0]

setPendingAudioBuffer(buffer) ==
    /\ pendingAudioBuffer' = buffer
    /\ UNCHANGED <<recordingVars, INSIGHT_RULES, calls, route, routeParams, processingRef,
                   timeoutId, effectMounted>>

\* A consume that hands the buffer out and leaves it in the slot
consumeKeepsBuffer(slot) == [pendingAudioBuffer |-> slot, buffer |-> slot]

\* The slot after a consume, and the buffer handed out
consumePendingAudioBuffer(slot) == [pendingAudioBuffer |-> null, buffer |-> slot]

\* The two functions of the slot called in any order, each call logged
MaxSlotCalls == 4

CallSetPendingAudioBuffer(buffer) ==
    /\ pendingAudioBuffer' = buffer
    /\ calls' = Append(calls, [fn |-> "setPendingAudioBuffer", audioBuffer |-> buffer])
    /\ UNCHANGED <<recordingVars, INSIGHT_RULES, route, routeParams, processingRef, timeoutId,
                   effectMounted>>

CallConsumePendingAudioBuffer ==
    /\ \E r \in {consumePendingAudioBuffer(pendingAudioBuffer)} :
           /\ pendingAudioBuffer' = r.pendingAudioBuffer
           /\ calls' = Append(calls, [fn |-> "consumePendingAudioBuffer", out |-> r.buffer])
    /\ UNCHANGED <<recordingVars, INSIGHT_RULES, route, routeParams, processingRef, timeoutId,
                   effectMounted>>

NextSlot ==
    /\ Len(calls) < MaxSlotCalls
    /\ \/ CallSetPendingAudioBuffer(silentBuffer)
       \/ CallSetPendingAudioBuffer(voicedBuffer)
       \/ CallSetPendingAudioBuffer(emptyBuffer)
       \/ CallSetPendingAudioBuffer(bufferWithoutSamples)
       \/ CallConsumePendingAudioBuffer

SpecSlot == Init /\ [][NextSlot]_vars

\* HomeScreen: both branches of the permission test navigate to Recording,
\* which mounts RecordingScreen with fresh state and refs.
\* The number of sessions is bounded by the length of the call log.
handleStartRecording ==
    /\ route = "Home"
    /\ Len(calls) < MaxCalls
    /\ route' = "Recording"
    /\ isRecording' = FALSE
    /\ elapsedMs' = 0
    /\ permissionDenied' = FALSE
    /\ recordingRef' = null
    /\ timerRef' = null
    /\ recordingEffectRan' = FALSE
    /\ alert' = null
    /\ UNCHANGED <<INSIGHT_RULES, calls, pendingAudioBuffer, routeParams, processingRef,
                   timeoutId, effectMounted, recordingStatus, elapsed>>

TARGET_DURATION_MS == 30000

MIN_DURATION_MS == 3000

\* The instants of a session at which something is observed
Instants == {2900, 3000, 30000}

\* RecordingSession (AudioRecorder): the members of the object startRecording returns
session ==
    [recording |-> "Audio.Recording", startTime |-> "Date.now()",
     stop |-> "function", getElapsedMs |-> "function"]

\* cleanupRecording with the test of status.isRecording left out
cleanupRecordingUnconditional(recording, status) ==
    IF recording = null THEN status
    ELSE IF "getStatusAsync" \notin DOMAIN recording THEN status
    ELSE "stopped"

\* cleanupRecording(recording): the status of the Audio.Recording after it.
\* Calling a member the object does not have is a TypeError, which the catch
\* block ignores.
cleanupRecording(recording, status) ==
    IF recording = null THEN status
    ELSE IF "getStatusAsync" \notin DOMAIN recording THEN status
    ELSE IF status = "recording" THEN "stopped" ELSE status

\* RecordingScreen's mount effect, initRecording: permission refused, or
\* startRecording throws, or the session starts and the interval is set.  The
\* interval's callback calls the handleStop of the render the effect ran in,
\* which closes over that render's isRecording.
initRecording(outcome) ==
    /\ route = "Recording"
    /\ ~recordingEffectRan
    /\ recordingEffectRan' = TRUE
    /\ CASE outcome = "denied" ->
              /\ permissionDenied' = TRUE
              /\ UNCHANGED <<isRecording, recordingRef, timerRef, alert, recordingStatus,
                             elapsed>>
         [] outcome = "failed" ->
              /\ alert' = [title |-> "Recording Error"]
              /\ UNCHANGED <<isRecording, permissionDenied, recordingRef, timerRef,
                             recordingStatus, elapsed>>
         [] outcome = "started" ->
              /\ recordingRef' = session
              /\ isRecording' = TRUE
              /\ timerRef' = [callback |-> "initRecording", isRecording |-> isRecording]
              /\ recordingStatus' = "recording"
              /\ elapsed' = 0
              /\ UNCHANGED <<permissionDenied, alert>>
    /\ UNCHANGED <<INSIGHT_RULES, calls, screenVars, elapsedMs>>

\* Time passes during a session
TimePasses ==
    /\ route = "Recording"
    /\ recordingRef # null
    /\ \E t \in Instants : t > elapsed /\ elapsed' = t
    /\ UNCHANGED <<INSIGHT_RULES, calls, screenVars, isRecording, elapsedMs,
                   permissionDenied, recordingRef, timerRef, recordingEffectRan, alert,
                   recordingStatus>>

\* The buffers RecordingSession.stop can resolve to
StoppedBuffers == {silentBuffer, voicedBuffer}

\* RecordingScreen leaves the stack: its state and refs are discarded with it
\* (the next mount starts from the initial values again)
RecordingScreenUnmounted ==
    /\ isRecording' = FALSE
    /\ elapsedMs' = 0
    /\ permissionDenied' = FALSE
    /\ recordingRef' = null
    /\ timerRef' = null
    /\ recordingEffectRan' = FALSE
    /\ alert' = null
    /\ elapsed' = 0

\* handleStop without the test of the minimum duration
handleStopAnyDuration(isRecordingSeen, shown, stopped, buffer, statusAfterThrow) ==
    IF recordingRef = null \/ ~isRecordingSeen
    THEN /\ elapsedMs' = shown
         /\ UNCHANGED <<isRecording, permissionDenied, recordingRef, timerRef,
                        recordingEffectRan, alert, recordingStatus, elapsed, screenVars>>
    ELSE IF stopped
    THEN /\ recordingStatus' = "stopped"
         /\ route' = "Processing"
         /\ routeParams' = [audioBuffer |-> buffer]
         /\ processingRef' = FALSE
         /\ timeoutId' = null
         /\ effectMounted' = FALSE
         /\ RecordingScreenUnmounted
         /\ UNCHANGED pendingAudioBuffer
    ELSE /\ elapsedMs' = shown
         /\ isRecording' = FALSE
         /\ timerRef' = null
         /\ alert' = [title |-> "Error"]
         /\ recordingStatus' = statusAfterThrow
         /\ UNCHANGED <<permissionDenied, recordingRef, recordingEffectRan, elapsed,
                        screenVars>>

\* handleStop as the closure of one render runs it: isRecordingSeen is the
\* isRecording that render had, shown the elapsed time on display when it
\* returns.  stop() either resolves to a buffer, and the screen is replaced by
\* Processing with the buffer in the route's params, or throws, before or
\* after the native recording was stopped.
handleStop(isRecordingSeen, shown, stopped, buffer, statusAfterThrow) ==
    IF recordingRef = null \/ ~isRecordingSeen
    THEN /\ elapsedMs' = shown
         /\ UNCHANGED <<isRecording, permissionDenied, recordingRef, timerRef,
                        recordingEffectRan, alert, recordingStatus, elapsed, screenVars>>
    ELSE IF elapsed < MIN_DURATION_MS
    THEN /\ elapsedMs' = shown
         /\ alert' = [title |-> "Too Short"]
         /\ timerRef' = [callback |-> "handleStop"]
         /\ UNCHANGED <<isRecording, permissionDenied, recordingRef, recordingEffectRan,
                        recordingStatus, elapsed, screenVars>>
    ELSE IF stopped
    THEN /\ recordingStatus' = "stopped"
         /\ route' = "Processing"
         /\ routeParams' = [audioBuffer |-> buffer]
         /\ processingRef' = FALSE
         /\ timeoutId' = null
         /\ effectMounted' = FALSE
         /\ RecordingScreenUnmounted
         /\ UNCHANGED pendingAudioBuffer
    ELSE /\ elapsedMs' = shown
         /\ isRecording' = FALSE
         /\ timerRef' = null
         /\ alert' = [title |-> "Error"]
         /\ recordingStatus' = statusAfterThrow
         /\ UNCHANGED <<permissionDenied, recordingRef, recordingEffectRan, elapsed,
                        screenVars>>

\* The Stop button: the handleStop of the render on screen
PressStop ==
    /\ route = "Recording"
    /\ ~permissionDenied
    /\ alert = null
    /\ \E stopped \in BOOLEAN, buffer \in StoppedBuffers,
          statusAfterThrow \in {"recording", "stopped"} :
           handleStop(isRecording, elapsedMs, stopped, buffer, statusAfterThrow)
    /\ UNCHANGED <<INSIGHT_RULES, calls>>

\* The interval fires.  The one initRecording set shows the elapsed time and,
\* from 30 seconds on, calls the handleStop its closure holds; the one
\* handleStop set after a too short recording only shows the elapsed time.
IntervalTick ==
    /\ route = "Recording"
    /\ timerRef # null
    /\ IF timerRef.callback = "initRecording" /\ elapsed >= TARGET_DURATION_MS
       THEN \E stopped \in BOOLEAN, buffer \in StoppedBuffers,
               statusAfterThrow \in {"recording", "stopped"} :
                handleStop(timerRef.isRecording, elapsed, stopped, buffer, statusAfterThrow)
       ELSE /\ elapsedMs' = elapsed
            /\ UNCHANGED <<isRecording, permissionDenied, recordingRef, timerRef,
                           recordingEffectRan, alert, recordingStatus, elapsed, screenVars>>
    /\ UNCHANGED <<INSIGHT_RULES, calls>>

\* The Continue button of the Too Short alert
dismissAlert ==
    /\ route = "Recording"
    /\ alert = [title |-> "Too Short"]
    /\ alert' = null
    /\ UNCHANGED <<INSIGHT_RULES, calls, screenVars, isRecording, elapsedMs,
                   permissionDenied, recordingRef, timerRef, recordingEffectRan,
                   recordingStatus, elapsed>>

\* The Cancel button: clear the interval, clean the recording up, go back
handleCancel ==
    /\ route = "Recording"
    /\ ~permissionDenied
    /\ alert = null
    /\ recordingStatus' = cleanupRecording(recordingRef, recordingStatus)
    /\ route' = "Home"
    /\ RecordingScreenUnmounted
    /\ UNCHANGED <<INSIGHT_RULES, calls, pendingAudioBuffer, routeParams, processingRef,
                   timeoutId, effectMounted>>

\* navigation.goBack() from the OK button of an error alert, from the
\* permission view, or from the system's back gesture: the screen unmounts and
\* the effect's cleanup clears the interval and cleans the recording up
goBack ==
    /\ route = "Recording"
    /\ alert # [title |-> "Too Short"]
    /\ recordingStatus' = cleanupRecording(recordingRef, recordingStatus)
    /\ route' = "Home"
    /\ RecordingScreenUnmounted
    /\ UNCHANGED <<INSIGHT_RULES, calls, pendingAudioBuffer, routeParams, processingRef,
                   timeoutId, effectMounted>>

\* ProcessingScreen's effect: return at once when the ref is set, otherwise
\* set it and arm the 500 ms timer
ProcessingEffect ==
    /\ route = "Processing"
    /\ ~effectMounted
    /\ effectMounted' = TRUE
    /\ IF processingRef
       THEN UNCHANGED <<processingRef, timeoutId>>
       ELSE /\ processingRef' = TRUE
            /\ timeoutId' = [delay |-> 500]
    /\ UNCHANGED <<recordingVars, INSIGHT_RULES, calls, pendingAudioBuffer, route, routeParams>>

\* A cleanup that leaves the timer set
ProcessingEffectCleanupKeepsTimer ==
    /\ route = "Processing"
    /\ effectMounted
    /\ effectMounted' = FALSE
    /\ UNCHANGED <<recordingVars, INSIGHT_RULES, calls, pendingAudioBuffer, route, routeParams,
                   processingRef, timeoutId>>

\* The effect's cleanup, which React runs before it runs the effect again
ProcessingEffectCleanup ==
    /\ route = "Processing"
    /\ effectMounted
    /\ effectMounted' = FALSE
    /\ timeoutId' = null
    /\ UNCHANGED <<recordingVars, INSIGHT_RULES, calls, pendingAudioBuffer, route, routeParams,
                   processingRef>>

fallbackResult ==
    [scores |-> [energy |-> Num(50), tension |-> Num(50), clarity |-> Num(50)],
     insight |-> "Analysis could not be completed. Please try again.",
     confidence |-> "low",
     features |-> [rms |-> Num(0), pitchMean |-> Num(0), pitchVariance |-> Num(0),
                   spectralCentroid |-> Num(0), zeroCrossingRate |-> Num(0),
                   voicedRatio |-> Num(0), jitterProxy |-> Num(0),
                   shimmerProxy |-> Num(0), durationSeconds |-> Num(0)]]

\* Step 4 of processAudio: the result object, with the rule table as
\* generateInsight left it
BuildResult(features, scores, insight, confidence) ==
    [INSIGHT_RULES |-> insight.INSIGHT_RULES,
     result |-> [scores |-> scores, insight |-> insight.message,
                 confidence |-> confidence, features |-> features]]

\* Steps 2 and 3: scores, insight and confidence of the extracted features
AnalyzeFeatures(table, features, scores) ==
    BuildResult(features, scores, generateInsight(table, features, scores),
                calculateConfidence(features))

\* Steps 1 to 4 on the consumed buffer
AnalyzeBuffer(table, features) == AnalyzeFeatures(table, features, calculateScores(features))

\* processAudio with its try block not guarded: the error leaves the function
processAudioUncaught(slot, table) ==
    LET consumed == consumePendingAudioBuffer(slot)
        thrown == consumed.buffer = null \/ ThrowsTypeError(consumed.buffer)
        analysis == AnalyzeBuffer(table, extractFeatures(consumed.buffer))
    IN  IF thrown
        THEN [pendingAudioBuffer |-> consumed.pendingAudioBuffer,
              audioBuffer |-> consumed.buffer, INSIGHT_RULES |-> table,
              threw |-> TRUE, navigated |-> FALSE, result |-> null]
        ELSE [pendingAudioBuffer |-> consumed.pendingAudioBuffer,
              audioBuffer |-> consumed.buffer, INSIGHT_RULES |-> analysis.INSIGHT_RULES,
              threw |-> FALSE, navigated |-> TRUE, result |-> analysis.result]

\* processAudio: consume the slot, run the pipeline, navigate to Results;
\* whatever is thrown on the way is caught and the fallback result is shown
processAudio(slot, table) ==
    LET consumed == consumePendingAudioBuffer(slot)
        thrown == consumed.buffer = null \/ ThrowsTypeError(consumed.buffer)
        analysis == AnalyzeBuffer(table, extractFeatures(consumed.buffer))
    IN  IF thrown
        THEN [pendingAudioBuffer |-> consumed.pendingAudioBuffer,
              audioBuffer |-> consumed.buffer, INSIGHT_RULES |-> table,
              threw |-> FALSE, navigated |-> TRUE, result |-> fallbackResult]
        ELSE [pendingAudioBuffer |-> consumed.pendingAudioBuffer,
              audioBuffer |-> consumed.buffer, INSIGHT_RULES |-> analysis.INSIGHT_RULES,
              threw |-> FALSE, navigated |-> TRUE, result |-> analysis.result]

\* The 500 ms timer fires and runs processAudio; navigation.replace unmounts
\* the screen, which runs the effect's cleanup
ProcessingTimeout ==
    /\ route = "Processing"
    /\ timeoutId # null
    /\ \E r \in {processAudio(pendingAudioBuffer, INSIGHT_RULES)} :
           /\ pendingAudioBuffer' = r.pendingAudioBuffer
           /\ INSIGHT_RULES' = r.INSIGHT_RULES
           /\ calls' = Append(calls,
                  [fn |-> "processAudio", params |-> routeParams,
                   audioBuffer |-> r.audioBuffer,
                   threw |-> r.threw, navigated |-> r.navigated, out |-> r.result])
           /\ timeoutId' = null
           /\ IF r.navigated
              THEN /\ route' = "Results"
                   /\ routeParams' = [result |-> r.result]
                   /\ effectMounted' = FALSE
              ELSE UNCHANGED <<route, routeParams, effectMounted>>
           /\ UNCHANGED <<processingRef, recordingVars>>

\* ResultsScreen: back to Home
handleTryAgain ==
    /\ route = "Results"
    /\ route' = "Home"
    /\ routeParams' = null
    /\ UNCHANGED <<recordingVars, INSIGHT_RULES, calls, pendingAudioBuffer, processingRef,
                   timeoutId, effectMounted>>

Next ==
    \/ setPendingAudioBuffer(silentBuffer)
    \/ setPendingAudioBuffer(voicedBuffer)
    \/ setPendingAudioBuffer(emptyBuffer)
    \/ setPendingAudioBuffer(bufferWithoutSamples)
    \/ handleStartRecording
    \/ initRecording("denied")
    \/ initRecording("failed")
    \/ initRecording("started")
    \/ TimePasses
    \/ PressStop
    \/ IntervalTick
    \/ dismissAlert
    \/ handleCancel
    \/ goBack
    \/ ProcessingEffect
    \/ ProcessingEffectCleanup
    \/ ProcessingTimeout
    \/ handleTryAgain

Spec == Init /\ [][Next]_vars

\* The 500 ms timer is set: the guard of ProcessingTimeout, which always
\* changes the state (it clears timeoutId), so this is ENABLED <<ProcessingTimeout>>_vars
TimerSet == route = "Processing" /\ timeoutId # null

\* The screens under the scheduling the runtime guarantees: React runs a
\* mounted screen's pending effect, and a timer that stays set fires (weak
\* fairness of ProcessingTimeout, written with its guard).  Nothing obliges
\* React to run a cleanup while the screen stays mounted.
SpecLive ==
    /\ Spec
    /\ WF_vars(ProcessingEffect)
    /\ ([]<>(~TimerSet) \/ []<><<ProcessingTimeout>>_vars)

---------------------------------------------------------------------------
(* Properties *)

ScoreInRange(x) == IsInteger(x) /\ 0 <= x.n /\ x.n <= 100

\* C1: for features that are finite numbers in their documented ranges,
\* calculateScores returns energy, tension and clarity that are each an
\* integer in [0,100], with the signal-quality guardrail applied or not.
C1_ScoresBounded ==
    \A i \in DOMAIN calls :
        calls[i].fn = "calculateScores" =>
            /\ ScoreInRange(calls[i].out.energy)
            /\ ScoreInRange(calls[i].out.tension)
            /\ ScoreInRange(calls[i].out.clarity)

\* A low-quality input (guardrail applied) whose attenuated scores are not all 0
C1_Witness ==
    \E i \in DOMAIN calls :
        /\ calls[i].fn = "calculateScores"
        /\ GuardrailActive(calls[i].features)
        /\ calls[i].out.energy.n > 0
        /\ calls[i].out.clarity.n > 0

\* C2: rms < 0.015 and voicedRatio = 0 give energy, tension and clarity <= 35,
\* whatever spectralCentroid, zeroCrossingRate, pitchVariance and jitterProxy are.
C2_QualityGuardrail ==
    \A i \in DOMAIN calls :
        (/\ calls[i].fn = "calculateScores"
         /\ Lt(calls[i].features.rms, Q(15, 1000))
         /\ calls[i].features.voicedRatio = Num(0)) =>
            /\ Le(calls[i].out.energy, Num(35))
            /\ Le(calls[i].out.tension, Num(35))
            /\ Le(calls[i].out.clarity, Num(35))

\* A silence-like input whose un-attenuated tension would be 100
C2_Witness ==
    \E i \in DOMAIN calls :
        /\ calls[i].fn = "calculateScores"
        /\ Lt(calls[i].features.rms, Q(15, 1000))
        /\ calls[i].features.voicedRatio = Num(0)
        /\ calculateTension(calls[i].features) = Num(100)

\* The nine rules from highest to lowest priority, equal priorities in
\* declaration order, as the claim lists them.
InsightByPriority(features, scores) ==
    IF Lt(features.rms, Q(15, 1000)) THEN InsightRulesDeclared[1].message
    ELSE IF Lt(features.voicedRatio, Q(1, 10)) THEN InsightRulesDeclared[2].message
    ELSE IF Lt(features.durationSeconds, Num(5)) THEN InsightRulesDeclared[3].message
    ELSE IF Gt(scores.tension, Num(75)) THEN InsightRulesDeclared[4].message
    ELSE IF Gt(scores.energy, Num(80)) THEN InsightRulesDeclared[5].message
    ELSE IF Lt(scores.energy, Num(25)) THEN InsightRulesDeclared[6].message
    ELSE IF Lt(scores.clarity, Num(35)) THEN InsightRulesDeclared[7].message
    ELSE IF Gt(scores.clarity, Num(80)) /\ Gt(scores.energy, Num(50))
         THEN InsightRulesDeclared[8].message
    ELSE InsightRulesDeclared[9].message

\* C3: generateInsight returns the message of the first rule whose predicate
\* is true, the rules taken from highest to lowest priority and equal
\* priorities in declaration order; with rms < 0.015 and tension > 75 it
\* returns the 'very quiet' message.
C3_InsightPriority ==
    \A i \in DOMAIN calls :
        calls[i].fn = "generateInsight" =>
            /\ calls[i].out = InsightByPriority(calls[i].features, calls[i].scores)
            /\ (Lt(calls[i].features.rms, Q(15, 1000)) /\ Gt(calls[i].scores.tension, Num(75))
                  => calls[i].out = "This sample is very quiet - results may be less reliable.")

C3_Witness ==
    \E i \in DOMAIN calls :
        /\ calls[i].fn = "generateInsight"
        /\ Lt(calls[i].features.rms, Q(15, 1000))
        /\ Gt(calls[i].scores.tension, Num(75))
        /\ calls[i].out = "This sample is very quiet - results may be less reliable."

\* C4: calculateConfidence returns at the first condition that holds:
\* rms < 0.015 low; durationSeconds < 3 low; voicedRatio < 0.1 low;
\* (rms < 0.03 or voicedRatio < 0.3) medium; otherwise high.  So 'high' is
\* returned exactly when rms >= 0.03, durationSeconds >= 3 and voicedRatio >= 0.3.
C4_ConfidenceOrder ==
    \A i \in DOMAIN calls :
        calls[i].fn = "calculateConfidence" =>
            LET f == calls[i].features
                low == \/ Lt(f.rms, Q(15, 1000))
                       \/ Lt(f.durationSeconds, Num(3))
                       \/ Lt(f.voicedRatio, Q(1, 10))
                medium == Lt(f.rms, Q(3, 100)) \/ Lt(f.voicedRatio, Q(3, 10))
            IN  /\ calls[i].out = (IF low THEN "low" ELSE IF medium THEN "medium" ELSE "high")
                /\ calls[i].out = "high" <=>
                       (/\ Ge(f.rms, Q(3, 100))
                        /\ Ge(f.durationSeconds, Num(3))
                        /\ Ge(f.voicedRatio, Q(3, 10)))

\* 'high' at the three thresholds themselves
C4_Witness ==
    \E i \in DOMAIN calls :
        /\ calls[i].fn = "calculateConfidence"
        /\ calls[i].features.rms = Q(3, 100)
        /\ calls[i].features.durationSeconds = Num(3)
        /\ calls[i].features.voicedRatio = Q(3, 10)
        /\ calls[i].out = "high"

\* The rules of the table whose predicate is true for every input
CatchAllRules ==
    {i \in DOMAIN INSIGHT_RULES :
        \A f \in SignalFeatures, s \in VoiceScoresGiven :
            RuleCondition(INSIGHT_RULES[i], f, s)}

\* C5: INSIGHT_RULES holds exactly one rule whose predicate is true for
\* every input, and it has the strictly lowest priority; so generateInsight
\* always returns the message of a rule of the table, never its fallback
\* string 'Voice signal analyzed.'.
C5_CatchAll ==
    /\ calls = <<>> =>
          /\ Cardinality(CatchAllRules) = 1
          /\ \A i \in CatchAllRules : \A j \in DOMAIN INSIGHT_RULES :
                 j # i => INSIGHT_RULES[i].priority < INSIGHT_RULES[j].priority
    /\ \A i \in DOMAIN calls :
          calls[i].fn = "generateInsight" =>
              /\ calls[i].out # "Voice signal analyzed."
              /\ \E j \in DOMAIN INSIGHT_RULES : calls[i].out = INSIGHT_RULES[j].message

\* An input on which only the catch-all rule matches
C5_Witness ==
    \E i \in DOMAIN calls :
        /\ calls[i].fn = "generateInsight"
        /\ calls[i].out = "Voice signal detected within typical range."
        /\ \A j \in 1..8 :
              ~RuleCondition(InsightRulesDeclared[j], calls[i].features, calls[i].scores)

\* C6: getInsightCategory returns 'warning' if rms < 0.015 or voicedRatio <
\* 0.1 or durationSeconds < 5; otherwise 'positive' if clarity > 75 and
\* energy > 50 and tension < 50; otherwise 'neutral'.  The warning test takes
\* precedence over the positive test.
C6_Category ==
    \A i \in DOMAIN calls :
        calls[i].fn = "getInsightCategory" =>
            LET f == calls[i].features
                s == calls[i].scores
                warning == \/ Lt(f.rms, Q(15, 1000))
                           \/ Lt(f.voicedRatio, Q(1, 10))
                           \/ Lt(f.durationSeconds, Num(5))
                positive == /\ Gt(s.clarity, Num(75))
                            /\ Gt(s.energy, Num(50))
                            /\ Lt(s.tension, Num(50))
            IN  /\ warning => calls[i].out = "warning"
                /\ ~warning /\ positive => calls[i].out = "positive"
                /\ ~warning /\ ~positive => calls[i].out = "neutral"

\* Both tests true: 'warning' is returned
C6_Witness ==
    \E i \in DOMAIN calls :
        /\ calls[i].fn = "getInsightCategory"
        /\ Lt(calls[i].features.durationSeconds, Num(5))
        /\ Gt(calls[i].scores.clarity, Num(75))
        /\ Gt(calls[i].scores.energy, Num(50))
        /\ Lt(calls[i].scores.tension, Num(50))
        /\ calls[i].out = "warning"

\* C7: calculateScores, calculateConfidence and generateInsight are
\* deterministic and history-independent: two calls of the same function on
\* the same input return the same result whatever calls were made before or
\* between them, and no call changes the rule table.
C7_HistoryIndependent ==
    /\ INSIGHT_RULES = InsightRulesDeclared
    /\ \A i, j \in DOMAIN calls :
          (/\ calls[i].fn = calls[j].fn
           /\ calls[i].features = calls[j].features
           /\ calls[i].scores = calls[j].scores) => calls[i].out = calls[j].out

\* The same call made twice with a call on another input between them
C7_Witness ==
    /\ Len(calls) = 3
    /\ calls[1].fn = "generateInsight"
    /\ calls[3].fn = "generateInsight"
    /\ calls[1].features = calls[3].features
    /\ calls[1].scores = calls[3].scores
    /\ calls[2].features # calls[1].features

\* The samples of a logged extractFeatures call that returned
SamplesOf(call) == call.audioBuffer.samples

FeatureFields ==
    {"rms", "pitchMean", "pitchVariance", "spectralCentroid", "zeroCrossingRate",
     "voicedRatio", "jitterProxy", "shimmerProxy", "durationSeconds"}

\* C8: for a buffer of at least one frame whose samples are all exactly zero,
\* extractFeatures returns rms, pitchMean, pitchVariance, spectralCentroid,
\* zeroCrossingRate, voicedRatio, jitterProxy and shimmerProxy all equal to 0,
\* and durationSeconds equal to the buffer's durationMs / 1000.
C8_SilenceIdentity ==
    \A i \in DOMAIN calls :
        (/\ calls[i].fn = "extractFeatures"
         /\ ~calls[i].threw
         /\ Len(SamplesOf(calls[i])) >= frameSize
         /\ \A k \in DOMAIN SamplesOf(calls[i]) : SamplesOf(calls[i])[k] = Num(0)) =>
            /\ \A f \in FeatureFields \ {"durationSeconds"} : calls[i].out[f] = Num(0)
            /\ calls[i].out.durationSeconds = Q(calls[i].audioBuffer.durationMs, 1000)

\* A silent buffer of two frames with 2.5 s of duration metadata
C8_Witness ==
    \E i \in DOMAIN calls :
        /\ calls[i].fn = "extractFeatures"
        /\ ~calls[i].threw
        /\ Len(SamplesOf(calls[i])) >= frameSize + hopSize
        /\ \A k \in DOMAIN SamplesOf(calls[i]) : SamplesOf(calls[i])[k] = Num(0)
        /\ calls[i].out.spectralCentroid = Num(0)
        /\ calls[i].out.durationSeconds = Q(5, 2)

\* C9: for a buffer with fewer samples than one frame (N = 0 included),
\* extractFeatures either signals an error or returns features whose fields
\* are all well-defined numbers (none NaN or undefined).
C9_ShortBufferWellDefined ==
    \A i \in DOMAIN calls :
        (/\ calls[i].fn = "extractFeatures"
         /\ ~calls[i].threw
         /\ Len(SamplesOf(calls[i])) < frameSize) =>
            \A f \in FeatureFields : IsFinite(calls[i].out[f])

\* C10: whenever ProcessingScreen's analysis cannot run or fails (the slot
\* holds no buffer, or the pipeline throws), no error leaves processAudio and
\* the screen navigates to Results with exactly the fallback result: scores
\* 50/50/50, the 'could not be completed' insight, confidence 'low' and
\* all-zero features.
C10_FallbackResult ==
    /\ \A i \in DOMAIN calls :
          (/\ calls[i].fn = "processAudio"
           /\ (calls[i].audioBuffer = null \/ ThrowsTypeError(calls[i].audioBuffer))) =>
              /\ ~calls[i].threw
              /\ calls[i].navigated
              /\ calls[i].out = fallbackResult
    /\ (route = "Results" /\ calls # <<>>) =>
          routeParams = [result |-> calls[Len(calls)].out]

\* Results shows the fallback after a run that found the slot empty and after
\* a run whose buffer made extractFeatures throw
C10_Witness ==
    /\ route = "Results"
    /\ routeParams = [result |-> fallbackResult]
    /\ \E i, j \in DOMAIN calls :
          /\ calls[i].fn = "processAudio"
          /\ calls[i].audioBuffer = null
          /\ calls[j].fn = "processAudio"
          /\ calls[j].audioBuffer = bufferWithoutSamples

\* round(min(35, raw * quality)) with raw clamped to [0,100]: the attenuation
\* applied to the unrounded score, rounded once
AttenuatedOnce(raw, quality) ==
    MathRound(MathMin(Num(35), Times(clamp(raw, Num(0), Num(100)), quality)))

\* C11: when quality < 0.25, each score returned by calculateScores equals
\* round(min(35, raw * quality)), raw being the unrounded weighted sum clamped
\* to [0,100]: the attenuation is applied to the unrounded score and rounding
\* happens once, at the end.
C11_AttenuateUnrounded ==
    \A i \in DOMAIN calls :
        (calls[i].fn = "calculateScores" /\ GuardrailActive(calls[i].features)) =>
            /\ calls[i].out.energy =
                   AttenuatedOnce(energyRaw(calls[i].features), signalQuality(calls[i].features))
            /\ calls[i].out.tension =
                   AttenuatedOnce(tensionRaw(calls[i].features), signalQuality(calls[i].features))
            /\ calls[i].out.clarity =
                   AttenuatedOnce(clarityRaw(calls[i].features), signalQuality(calls[i].features))

\* The weighted sums are the values calculateEnergy, calculateTension and
\* calculateClarity clamp and round
RawScoresAgree ==
    \A i \in DOMAIN calls :
        calls[i].fn = "calculateScores" =>
            /\ calculateEnergy(calls[i].features) =
                   MathRound(clamp(energyRaw(calls[i].features), Num(0), Num(100)))
            /\ calculateTension(calls[i].features) =
                   MathRound(clamp(tensionRaw(calls[i].features), Num(0), Num(100)))
            /\ calculateClarity(calls[i].features) =
                   MathRound(clamp(clarityRaw(calls[i].features), Num(0), Num(100)))

\* floor((n - frameSize) / hopSize) + 1 for n >= frameSize, in integers
FramesExpected(n) == ((n - frameSize) \div hopSize) + 1

\* C12: for a buffer of N >= frameSize samples, detectPitchFrames and
\* extractFeatures process exactly floor((N - frameSize) / hopSize) + 1
\* frames, frame i covering the samples [i*hopSize, i*hopSize + frameSize),
\* all of them inside the buffer; pitches and confidences have one entry per
\* frame; N = frameSize + 2*hopSize gives 3 frames (so for 1024 and 512).
C12_FrameCount ==
    /\ FrameCount(1024 + 2 * 512, 1024, 512) = 3
    /\ \A i \in DOMAIN calls :
          LET samples == SamplesOf(calls[i])
              N == Len(samples)
          IN  (N >= frameSize) =>
                 /\ calls[i].fn = "detectPitchFrames" =>
                       /\ calls[i].out.totalFrames = FramesExpected(N)
                       /\ Len(calls[i].out.pitches) = FramesExpected(N)
                       /\ Len(calls[i].out.confidences) = FramesExpected(N)
                 /\ calls[i].fn = "extractFeatures" =>
                       Len(analyzedFrames(samples, calls[i].audioBuffer.sampleRate))
                           = FramesExpected(N)
                 /\ \A k \in 0..(FrameCount(N, frameSize, hopSize) - 1) :
                       /\ k * hopSize + frameSize <= N
                       /\ Len(subarray(samples, k * hopSize, k * hopSize + frameSize))
                              = frameSize
                 /\ N = frameSize + 2 * hopSize =>
                       FrameCount(N, frameSize, hopSize) = 3

\* A pitch track of a buffer of frameSize + 2*hopSize samples: three entries
C12_Witness ==
    \E i \in DOMAIN calls :
        /\ calls[i].fn = "detectPitchFrames"
        /\ Len(SamplesOf(calls[i])) = frameSize + 2 * hopSize
        /\ Len(calls[i].out.pitches) = 3
        /\ calls[i].out.totalFrames = 3

\* The per-frame RMS values of a buffer, as extractFeatures collects them
FrameRMSsOf(audioBuffer) ==
    [k \in 1..FrameCount(Len(audioBuffer.samples), frameSize, hopSize) |->
        rmsEnergy(subarray(audioBuffer.samples, (k - 1) * hopSize,
                           (k - 1) * hopSize + frameSize))]

\* C13: the shimmerProxy returned by extractFeatures is not capped: when the
\* mean relative frame-to-frame RMS difference exceeds 1, that value is
\* returned unchanged; only jitterProxy is capped at 1.
C13_ShimmerUncapped ==
    \A i \in DOMAIN calls :
        (calls[i].fn = "extractFeatures" /\ ~calls[i].threw) =>
            /\ calls[i].out.shimmerProxy = shimmerProxy(FrameRMSsOf(calls[i].audioBuffer))
            /\ Le(calls[i].out.jitterProxy, Num(1))

\* C14: the pending-buffer slot delivers each buffer at most once: a consume
\* that directly follows setPendingAudioBuffer(b) returns b and empties the
\* slot; every other consume (the first call, or one following a consume)
\* returns null; whatever the order of the set and consume calls.
C14_SlotDeliversOnce ==
    /\ \A i \in DOMAIN calls :
          calls[i].fn = "consumePendingAudioBuffer" =>
              IF i > 1 /\ calls[i - 1].fn = "setPendingAudioBuffer"
              THEN calls[i].out = calls[i - 1].audioBuffer
              ELSE calls[i].out = null
    /\ (calls # <<>> /\ calls[Len(calls)].fn = "consumePendingAudioBuffer") =>
          pendingAudioBuffer = null
    /\ (calls # <<>> /\ calls[Len(calls)].fn = "setPendingAudioBuffer") =>
          pendingAudioBuffer = calls[Len(calls)].audioBuffer

\* set(b), consume returning b, consume returning null, and a second set
C14_Witness ==
    /\ Len(calls) = 4
    /\ calls[1].fn = "setPendingAudioBuffer"
    /\ calls[2].fn = "consumePendingAudioBuffer"
    /\ calls[2].out = voicedBuffer
    /\ calls[3].fn = "consumePendingAudioBuffer"
    /\ calls[3].out = null
    /\ calls[4].fn = "setPendingAudioBuffer"
    /\ pendingAudioBuffer = silentBuffer

\* C15: when handleStop got a buffer from the stopped recording and replaced
\* the screen by Processing, processAudio runs the pipeline on that same
\* buffer and the result it navigates with is not the fallback result.
C15_RecordedBufferAnalyzed ==
    \A i \in 1..Len(calls) :
        (calls[i].fn = "processAudio" /\ "audioBuffer" \in DOMAIN calls[i].params)
            => /\ calls[i].audioBuffer = calls[i].params.audioBuffer
               /\ calls[i].out # fallbackResult

\* C16: whenever the Recording screen is left while the recording that
\* startRecording created is active, that recording is stopped.
C16_RecordingStoppedOnExit ==
    [][(route = "Recording" /\ route' # "Recording" /\ recordingStatus = "recording")
           => recordingStatus' = "stopped"]_vars

\* C17: with the recording active, once the interval has seen an elapsed time
\* of 30000 ms or more its call to handleStop has ended the session: the
\* Recording screen never shows such a time with the interval that
\* initRecording set still running.
C17_AutoStopAtTarget ==
    (/\ route = "Recording"
     /\ recordingStatus = "recording"
     /\ timerRef # null
     /\ timerRef.callback = "initRecording")
        => elapsedMs < TARGET_DURATION_MS

\* C18: extractFeatures leaves the caller's buffer as it was: after the call
\* the samples and the fields sampleRate, channels and durationMs have the
\* values they had before, and the returned object holds numbers only, no
\* array of the call.
C18_BufferUnchanged ==
    \A i \in 1..Len(calls) :
        (calls[i].fn = "extractFeatures" /\ ~calls[i].threw)
            => /\ calls[i].after = calls[i].audioBuffer
               /\ \A f \in DOMAIN calls[i].out : DOMAIN calls[i].out[f] = {"n", "d"}

\* A buffer of two overlapping frames with samples that the window would
\* change has been analysed
C18_Witness ==
    /\ Len(calls) = 1
    /\ calls[1].fn = "extractFeatures"
    /\ Len(calls[1].audioBuffer.samples) = frameSize + hopSize
    /\ \A k \in 1..Len(calls[1].audioBuffer.samples) :
           calls[1].audioBuffer.samples[k] = Q(1, 2)
    /\ calls[1].after = calls[1].audioBuffer
    /\ applyHannWindow(subarray(calls[1].audioBuffer.samples, 0, frameSize))
           # subarray(calls[1].audioBuffer.samples, 0, frameSize)

\* The lag bounds of the claim and the cmnd array of a frame
MinLagOf(config) == MathFloor(Q(config.sampleRate, DEFAULT_CONFIG.maxFreq)).n

MaxLagOf(config) ==
    LET ceilLag == MathCeil(Q(config.sampleRate, DEFAULT_CONFIG.minFreq)).n
    IN  IF ceilLag < config.frameSize - 1 THEN ceilLag ELSE config.frameSize - 1

CmndOf(samples, config) ==
    cumulativeMeanNormalized(differenceFunction(samples, config.frameSize))

\* cmnd(tau) < threshold and cmnd(tau-1) > cmnd(tau) < cmnd(tau+1)
Qualifies(cmnd, tau) ==
    /\ Lt(At(cmnd, tau), DEFAULT_CONFIG.threshold)
    /\ Gt(At(cmnd, tau - 1), At(cmnd, tau))
    /\ Lt(At(cmnd, tau), At(cmnd, tau + 1))

\* The qualifying lags of the closed range [minLag, maxLag]
QualifyingLags(samples, config) ==
    {tau \in MinLagOf(config)..MaxLagOf(config) : Qualifies(CmndOf(samples, config), tau)}

SmallestOf(lags) == CHOOSE tau \in lags : \A other \in lags : tau <= other

\* C20: detectPitchYIN selects the smallest qualifying lag of the closed
\* range [minLag, maxLag] (its confidence is 1 - cmnd of that lag), the lag
\* maxLag included, and returns pitch 0, confidence 0, unvoiced when no lag
\* of the range qualifies.
C20_ClosedLagRange ==
    \A i \in 1..Len(calls) :
        calls[i].fn = "detectPitchYIN"
            => LET lags == QualifyingLags(calls[i].samples, calls[i].config)
               IN  IF lags = {}
                   THEN calls[i].out =
                            [pitch |-> Num(0), confidence |-> Num(0), isVoiced |-> FALSE]
                   ELSE calls[i].out.confidence =
                            Minus(Num(1), At(CmndOf(calls[i].samples, calls[i].config),
                                             SmallestOf(lags)))

\* The mean of the relative differences over the valid pairs only
MeanOverValidPairs(values) ==
    IF Len(values) > 1 /\ Cardinality(ValidPairs(values)) > 0
    THEN Over(RelativeDifferenceSum(values, Len(values) - 1),
              Num(Cardinality(ValidPairs(values))))
    ELSE Num(0)

\* C21: shimmerProxy is the mean of the relative differences over exactly the
\* consecutive pairs of per-frame RMS values with a nonzero average: pairs
\* with a zero average do not count in the divisor, and the value is 0 with
\* fewer than two RMS values.  (The value is compared below the limit of 1
\* that the returned field is held to.)
C21_ShimmerOverValidPairs ==
    \A i \in DOMAIN calls :
        (calls[i].fn = "extractFeatures" /\ ~calls[i].threw) =>
            calls[i].out.shimmerProxy =
                MathMin(MeanOverValidPairs(FrameRMSsOf(calls[i].audioBuffer)), Num(1))

\* C22: handleStop never ends a recording shorter than 3000 ms.  Invoked by
\* the Stop button on an active session with elapsed < 3000 ms, it leaves the
\* screen on Recording, the native recording active, the session in the ref
\* and a timer running; and every step from Recording to Processing is taken
\* at an elapsed time of 3000 ms or more, with the recording stopped.
C22_NoShortRecording ==
    [][/\ (PressStop /\ recordingRef # null /\ isRecording /\ elapsed < MIN_DURATION_MS)
            => /\ route' = "Recording"
               /\ recordingStatus' = "recording"
               /\ recordingRef' = recordingRef
               /\ timerRef' # null
               /\ routeParams' = routeParams
       /\ (route = "Recording" /\ route' = "Processing")
            => /\ elapsed >= MIN_DURATION_MS
               /\ recordingStatus' = "stopped"]_vars

\* Stop was pressed 2900 ms into an active session: the alert is up, the
\* recording goes on and the display timer is set
C22_Witness ==
    /\ route = "Recording"
    /\ elapsed = 2900
    /\ alert = [title |-> "Too Short"]
    /\ recordingStatus = "recording"
    /\ recordingRef = session
    /\ timerRef = [callback |-> "handleStop"]

\* C23: per mount of ProcessingScreen the analysis runs at most once and
\* navigation.replace('Results', ...) is called at most once, however often
\* the effect runs: a run of processAudio consumes the slot, navigates and so
\* ends the mount; and once the effect's cleanup has run with the timer not
\* yet fired, no processAudio runs and nothing consumes the slot.
C23_ProcessOncePerMount ==
    [][/\ (route = "Processing" /\ calls' # calls)
            => /\ Len(calls') = Len(calls) + 1
               /\ calls'[Len(calls')].fn = "processAudio"
               /\ calls'[Len(calls')].navigated
               /\ pendingAudioBuffer' = null
               /\ route' = "Results"
               /\ timeoutId' = null
       /\ (route = "Processing" /\ processingRef /\ ~effectMounted)
            => /\ calls' = calls
               /\ route' = "Processing"
               /\ (pendingAudioBuffer # null => pendingAudioBuffer' # null)]_vars

\* The effect has run, its cleanup has run before the timer fired, and the
\* effect has run again in the same mount, with a buffer pending
C23_Witness ==
    /\ route = "Processing"
    /\ processingRef
    /\ effectMounted
    /\ timeoutId = null
    /\ pendingAudioBuffer = voicedBuffer

\* C24: whenever calculateConfidence(features) is 'high' the guardrail is
\* not active for the same features (quality >= 0.25) and calculateScores
\* returns calculateEnergy, calculateTension and calculateClarity as they
\* are; so attenuated scores only come with confidence 'low' or 'medium'.
C24_HighConfidenceUnattenuated ==
    \A i \in DOMAIN calls :
        calls[i].fn = "calculateScores" =>
            LET f == calls[i].features
            IN  /\ calculateConfidence(f) = "high" =>
                      /\ Ge(signalQuality(f), Q(25, 100))
                      /\ calls[i].out = [energy  |-> calculateEnergy(f),
                                         tension |-> calculateTension(f),
                                         clarity |-> calculateClarity(f)]
                /\ GuardrailActive(f) => calculateConfidence(f) \in {"low", "medium"}

\* 'high' at its two thresholds, where the quality is lowest (2/7), with
\* scores that an attenuation would change
C24_Witness ==
    \E i \in DOMAIN calls :
        /\ calls[i].fn = "calculateScores"
        /\ calls[i].features.rms = Q(3, 100)
        /\ calls[i].features.voicedRatio = Q(3, 10)
        /\ calculateConfidence(calls[i].features) = "high"
        /\ signalQuality(calls[i].features) = Q(2, 7)
        /\ calls[i].out.tension = Num(100)

\* The insight the pipeline shows for features: generateInsight on the
\* scores calculateScores returned for them
PipelineInsight(features, scores) == generateInsight(INSIGHT_RULES, features, scores).message

\* C25: with the guardrail active (quality < 0.25) every score returned by
\* calculateScores is at most 25 and equals the rounded product, so the clamp
\* to 35 changes nothing; and the insight generated for such features and
\* their scores is never the 'high tension', 'higher energy', 'clear,
\* well-projected' or catch-all 'typical range' message.
C25_AttenuatedScoresLow ==
    \A i \in DOMAIN calls :
        (calls[i].fn = "calculateScores" /\ GuardrailActive(calls[i].features)) =>
            LET f == calls[i].features
                quality == signalQuality(f)
            IN  /\ Le(calls[i].out.energy, Num(25))
                /\ Le(calls[i].out.tension, Num(25))
                /\ Le(calls[i].out.clarity, Num(25))
                /\ calls[i].out.energy = MathRound(Times(calculateEnergy(f), quality))
                /\ calls[i].out.tension = MathRound(Times(calculateTension(f), quality))
                /\ calls[i].out.clarity = MathRound(Times(calculateClarity(f), quality))
                /\ PipelineInsight(f, calls[i].out) \notin
                       {InsightRulesDeclared[4].message, InsightRulesDeclared[5].message,
                        InsightRulesDeclared[8].message, InsightRulesDeclared[9].message}

\* An attenuated call whose tension would be 100 without the guardrail and
\* whose signal passes the three signal-quality rules: the insight is the
\* 'lower energy' message
C25_Witness ==
    \E i \in DOMAIN calls :
        /\ calls[i].fn = "calculateScores"
        /\ GuardrailActive(calls[i].features)
        /\ Gt(signalQuality(calls[i].features), Num(0))
        /\ calculateTension(calls[i].features) = Num(100)
        /\ Gt(calls[i].out.tension, Num(0))
        /\ PipelineInsight(calls[i].features, calls[i].out) = InsightRulesDeclared[6].message

\* The messages of the three signal-quality rules: too_quiet, no_voice, very_short
SignalQualityMessages ==
    {InsightRulesDeclared[1].message, InsightRulesDeclared[2].message,
     InsightRulesDeclared[3].message}

\* C26: for the same features and scores, getInsightCategory returns
\* 'warning' if and only if generateInsight returns the message of too_quiet,
\* no_voice or very_short; so a score-based or catch-all message never comes
\* with 'warning' and a signal-quality message never with 'positive' or
\* 'neutral'.
C26_WarningIffSignalMessage ==
    \A i \in DOMAIN calls :
        /\ calls[i].fn = "generateInsight" =>
              (calls[i].out \in SignalQualityMessages
                  <=> getInsightCategory(calls[i].features, calls[i].scores) = "warning")
        /\ calls[i].fn = "getInsightCategory" =>
              (calls[i].out = "warning"
                  <=> PipelineInsight(calls[i].features, calls[i].scores)
                          \in SignalQualityMessages)

\* A recording of 4 seconds with a good signal and scores that would be
\* 'positive': the insight is the very_short message and the category 'warning'
C26_Witness ==
    \E i \in DOMAIN calls :
        /\ calls[i].fn = "generateInsight"
        /\ calls[i].features.durationSeconds = Num(4)
        /\ calls[i].features.rms = Q(5, 100)
        /\ calls[i].features.voicedRatio = Num(1)
        /\ calls[i].scores = [energy |-> Num(81), tension |-> Num(0), clarity |-> Num(81)]
        /\ calls[i].out = InsightRulesDeclared[3].message
        /\ getInsightCategory(calls[i].features, calls[i].scores) = "warning"

\* C27: if calculateConfidence(features) is 'low' then
\* getInsightCategory(features, scores) is 'warning', whatever the scores.
\* The converse fails: with rms >= 0.015, voicedRatio >= 0.1 and a duration
\* in [3, 5) seconds the category is 'warning' and the confidence 'medium'
\* or 'high'.
C27_LowImpliesWarning ==
    \A i \in DOMAIN calls :
        calls[i].fn = "getInsightCategory" =>
            LET f == calls[i].features
            IN  /\ calculateConfidence(f) = "low" => calls[i].out = "warning"
                /\ (/\ Ge(f.rms, Q(15, 1000))
                    /\ Ge(f.voicedRatio, Q(1, 10))
                    /\ Ge(f.durationSeconds, Num(3))
                    /\ Lt(f.durationSeconds, Num(5)))
                       => /\ calls[i].out = "warning"
                          /\ calculateConfidence(f) \in {"medium", "high"}

\* Low confidence by the voiced ratio alone, with scores that would be
\* 'positive': the category is 'warning'
C27_Witness ==
    \E i \in DOMAIN calls :
        /\ calls[i].fn = "getInsightCategory"
        /\ calls[i].features.rms = Q(5, 100)
        /\ calls[i].features.durationSeconds = Num(30)
        /\ calls[i].features.voicedRatio = Q(5, 100)
        /\ calls[i].scores = [energy |-> Num(81), tension |-> Num(0), clarity |-> Num(81)]
        /\ calculateConfidence(calls[i].features) = "low"
        /\ calls[i].out = "warning"

\* The priority of the rule a message belongs to
PriorityOf(message) ==
    LET k == CHOOSE j \in DOMAIN InsightRulesDeclared :
                 InsightRulesDeclared[j].message = message
    IN  InsightRulesDeclared[k].priority

\* C28: getAllMatchingInsights returns a non-empty list in descending rule
\* priority whose first element is what generateInsight returns for the same
\* input and whose last element is the catch-all message; and after any
\* sequence of calls of the two functions the shared table INSIGHT_RULES has
\* the order and contents it was declared with.
C28_AllMatchingInsights ==
    /\ INSIGHT_RULES = InsightRulesDeclared
    /\ \A i \in DOMAIN calls :
          calls[i].fn = "getAllMatchingInsights" =>
              LET out == calls[i].out
              IN  /\ Len(out) >= 1
                  /\ \A k \in 1..(Len(out) - 1) : PriorityOf(out[k]) >= PriorityOf(out[k + 1])
                  /\ out[1] = PipelineInsight(calls[i].features, calls[i].scores)
                  /\ out[Len(out)] = InsightRulesDeclared[9].message

\* A call on an input that matches a signal-quality rule, three score rules
\* and the catch-all
C28_Witness ==
    \E i \in DOMAIN calls :
        /\ calls[i].fn = "getAllMatchingInsights"
        /\ calls[i].features.rms = Q(1, 100)
        /\ calls[i].scores = [energy |-> Num(81), tension |-> Num(76), clarity |-> Num(81)]
        /\ calls[i].out = <<InsightRulesDeclared[1].message, InsightRulesDeclared[4].message,
                            InsightRulesDeclared[5].message, InsightRulesDeclared[8].message,
                            InsightRulesDeclared[9].message>>
        /\ INSIGHT_RULES = InsightRulesDeclared

\* A pitch result is either (0, 0, unvoiced) or (pitch > 0, confidence > 0.85, voiced)
UnvoicedOrConfident(pitch, confidence) ==
    \/ pitch = Num(0) /\ confidence = Num(0)
    \/ Gt(pitch, Num(0)) /\ Gt(confidence, Q(85, 100))

\* The number of entries of pitches that are > 0
PositiveCount(pitches) == Cardinality({k \in DOMAIN pitches : Gt(pitches[k], Num(0))})

\* C29: with the default threshold every detectPitchYIN result is
\* (0, 0, unvoiced) or (pitch > 0, confidence > 0.85, voiced); in
\* detectPitchFrames voicedFrames is the number of pitches > 0 and
\* 0 <= voicedFrames <= totalFrames; in extractFeatures voicedRatio lies in
\* [0, 1] and is the number of pitches > 0 over totalFrames.
C29_VoicedFrames ==
    \A i \in DOMAIN calls :
        /\ calls[i].fn = "detectPitchYIN" =>
              /\ UnvoicedOrConfident(calls[i].out.pitch, calls[i].out.confidence)
              /\ calls[i].out.isVoiced <=> Gt(calls[i].out.pitch, Num(0))
        /\ calls[i].fn = "detectPitchFrames" =>
              /\ \A k \in DOMAIN calls[i].out.pitches :
                     UnvoicedOrConfident(calls[i].out.pitches[k], calls[i].out.confidences[k])
              /\ calls[i].out.voicedFrames = PositiveCount(calls[i].out.pitches)
              /\ 0 <= calls[i].out.voicedFrames
              /\ calls[i].out.voicedFrames <= calls[i].out.totalFrames
        /\ (calls[i].fn = "extractFeatures" /\ ~calls[i].threw) =>
              LET tracked == detectPitchFrames(SamplesOf(calls[i]),
                                               calls[i].audioBuffer.sampleRate,
                                               frameSize, hopSize)
              IN  /\ Ge(calls[i].out.voicedRatio, Num(0))
                  /\ Le(calls[i].out.voicedRatio, Num(1))
                  /\ tracked.totalFrames > 0 =>
                         calls[i].out.voicedRatio =
                             Q(PositiveCount(tracked.pitches), tracked.totalFrames)

\* C30: a mounted ProcessingScreen eventually replaces itself with Results
\* (with the analysis result or the fallback result), for every schedule of
\* its effect, a cleanup followed by a second run of the effect included.
C30_EventuallyResults == (route = "Processing") ~> (route = "Results")

=========================================================================
